---- MODULE Spec2Model ----
(***************************************************************************)
(* State-machine model of the aws-serverless-kv backend:                   *)
(*   - the quota enforcer   (lambda_function.check_and_update_quota)       *)
(*   - the ingestion Lambda (document_processor.lambda_handler)            *)
(* Every external call (DynamoDB, S3, Bedrock, Textract) is one atomic     *)
(* step; calls of different Lambda invocations interleave freely.          *)
(***************************************************************************)
EXTENDS Integers, Sequences, FiniteSets, TLC

VARIABLES
    usage_table,   \* BOOLEAN: USER_USAGE_TABLE is configured (config.py:19)
    usage,         \* the usage table: a set of items [user_id, date, request_count]
    qpc,           \* per caller: position inside check_and_update_quota
    qret,          \* per caller: what its last call returned
    qstat,         \* history: counters of calls and their outcomes
    faults,        \* how many more external-service failures may still be injected
    status_table,  \* BOOLEAN: DOCUMENT_STATUS_TABLE is configured
    status,        \* the document_status table: a set of items
    objects,       \* the vault bucket: key -> object content, or NoObject
    chunks,        \* the document-chunks table: a set of items
    inv,           \* per Lambda invocation: the locals of lambda_handler
    log,           \* history: per invocation, what each record's run did
    chunker,       \* one call of chunk_text: its arguments, locals and position
    rag,           \* one chat request: retrieve_context's locals and position
    cosine,        \* one call of _cosine_similarity: its arguments and result
    del,           \* one DELETE /documents request: its locals and position
    ocr,           \* one call of extract_text: its dispatch and the Textract polling
    req            \* per caller: the chat request in lambda_function.lambda_handler

qvars == <<usage_table, usage, qpc, qret, qstat>>
ivars == <<status_table, status, objects, chunks, inv, log>>
pvars == <<chunker, rag, cosine, del, ocr, req>>
vars == <<usage_table, usage, qpc, qret, qstat, faults,
          status_table, status, objects, chunks, inv, log, chunker, rag, cosine,
          del, ocr, req>>

\* ---------------------------------------------------------------- bounds
NCallers == 2           \* concurrent chat requests of the one user
MaxCalls == 22          \* calls to check_and_update_quota per behaviour
MaxFaults == 2          \* injected service failures per behaviour
MaxBatch == 2           \* records in one S3 event
MaxChunks == 2          \* chunks an uploaded text splits into
MaxOld == 3             \* chunks of a document's previous generation
PageLimit == 2          \* items in one page of a DynamoDB Query (the 1 MB page)
MaxText == 7            \* characters of a text given to chunk_text
MaxSize == 6            \* chunk_size given to chunk_text
MaxIter == 10           \* loop iterations of chunk_text that are followed
MaxDim == 2             \* length of the vectors given to _cosine_similarity
MaxStored == 3          \* chunks stored under the asking user's partition
MaxTopK == 2            \* top_k given to retrieve_context
MaxPages == 3           \* result pages of a Textract job
MaxFragments == 3       \* fragments given to build_rag_prompt

\* ------------------------------------------------------- program constants
DAILY_MSG_LIMIT == 20
MAX_FILE_SIZE_MB == 10
CHUNK_SIZE == 500
RAG_MAX_CHARS == 4000

Callers == 1..NCallers
QUser == "u"
QToday == "d"

\* =========================================================================
\* Quota enforcer: lambda_function.check_and_update_quota
\* =========================================================================

\* The item of (user_id, today), as a set of zero or one items.
UsageItem(user, day) == {it \in usage : it.user_id = user /\ it.date = day}

\* attribute_not_exists(request_count): no counter stored for the key.
AttributeNotExists(user, day) == UsageItem(user, day) = {}

\* The stored request_count of the key; only read when the item exists.
RequestCount(user, day) == (CHOOSE it \in UsageItem(user, day) : TRUE).request_count

\* The counter with an absent item counted as 0 (for the properties).
CountOf(user, day) ==
    IF AttributeNotExists(user, day) THEN 0 ELSE RequestCount(user, day)

\* Variant of ConditionExpression that compares with <= instead of <.
ConditionExpression_leq(user, day) ==
    IF AttributeNotExists(user, day) THEN TRUE
    ELSE RequestCount(user, day) <= DAILY_MSG_LIMIT

\* ConditionExpression="request_count < :limit OR attribute_not_exists(request_count)"
ConditionExpression(user, day) ==
    IF AttributeNotExists(user, day) THEN TRUE
    ELSE RequestCount(user, day) < DAILY_MSG_LIMIT

\* Variant of UpdateExpression that initialises the counter but never adds :inc
\* to a stored one.
UpdateExpression_noinc(user, day) ==
    { [user_id |-> user, date |-> day,
       request_count |-> IF AttributeNotExists(user, day) THEN 1
                         ELSE RequestCount(user, day)] }

\* UpdateExpression="SET request_count = if_not_exists(request_count, :start) + :inc"
\* with :start = 0 and :inc = 1; yields the item that replaces the old one.
UpdateExpression(user, day) ==
    { [user_id |-> user, date |-> day,
       request_count |-> (IF AttributeNotExists(user, day) THEN 0
                          ELSE RequestCount(user, day)) + 1] }

\* History bookkeeping of one finished call.
Finished(ret, pre) ==
    [qstat EXCEPT !.done = @ + 1,
                  !.trues = @ + (IF ret = "true" THEN 1 ELSE 0),
                  !.falses = @ + (IF ret = "false" THEN 1 ELSE 0),
                  !.raised = @ + (IF ret = "raised" THEN 1 ELSE 0),
                  !.last = [pre |-> pre, ret |-> ret]]

\* `if not usage_table: return True`  -- no store access at all.
QuotaFailOpen(p) ==
    /\ ~usage_table
    /\ qpc[p] = "idle"
    /\ qstat.calls < MaxCalls
    /\ qret' = [qret EXCEPT ![p] = "true"]
    /\ qstat' = [Finished("true", CountOf(QUser, QToday)) EXCEPT !.calls = @ + 1]
    /\ UNCHANGED <<usage_table, usage, qpc, faults>>
    /\ UNCHANGED <<ivars, pvars>>

\* The caller issues update_item; the request is now in flight.
QuotaSend(p) ==
    /\ usage_table
    /\ qpc[p] = "idle"
    /\ qstat.calls < MaxCalls
    /\ qpc' = [qpc EXCEPT ![p] = "update_item"]
    /\ qret' = [qret EXCEPT ![p] = "none"]
    /\ qstat' = [qstat EXCEPT !.calls = @ + 1,
                              !.race = @ \/ (/\ \E q \in Callers : qpc[q] = "update_item"
                                             /\ CountOf(QUser, QToday) = DAILY_MSG_LIMIT - 1)]
    /\ UNCHANGED <<usage_table, usage, faults>>
    /\ UNCHANGED <<ivars, pvars>>

\* The store applies the conditional update atomically; the call returns True.
QuotaUpdateOk(p) ==
    /\ qpc[p] = "update_item"
    /\ ConditionExpression(QUser, QToday)
    /\ usage' = (usage \ UsageItem(QUser, QToday)) \cup UpdateExpression(QUser, QToday)
    /\ qpc' = [qpc EXCEPT ![p] = "idle"]
    /\ qret' = [qret EXCEPT ![p] = "true"]
    /\ qstat' = Finished("true", CountOf(QUser, QToday))
    /\ UNCHANGED <<usage_table, faults>>
    /\ UNCHANGED <<ivars, pvars>>

\* ConditionalCheckFailedException: nothing is written; the call returns False.
QuotaConditionFailed(p) ==
    /\ qpc[p] = "update_item"
    /\ ~ConditionExpression(QUser, QToday)
    /\ qpc' = [qpc EXCEPT ![p] = "idle"]
    /\ qret' = [qret EXCEPT ![p] = "false"]
    /\ qstat' = Finished("false", CountOf(QUser, QToday))
    /\ UNCHANGED <<usage_table, usage, faults>>
    /\ UNCHANGED <<ivars, pvars>>

\* Any other ClientError: printed and re-raised; nothing is written.
QuotaStoreError(p) ==
    /\ qpc[p] = "update_item"
    /\ faults > 0
    /\ faults' = faults - 1
    /\ qpc' = [qpc EXCEPT ![p] = "idle"]
    /\ qret' = [qret EXCEPT ![p] = "raised"]
    /\ qstat' = Finished("raised", CountOf(QUser, QToday))
    /\ UNCHANGED <<usage_table, usage>>
    /\ UNCHANGED <<ivars, pvars>>

\* =========================================================================
\* Strings: a Python str is a sequence of one-character strings
\* =========================================================================

\* Code points of the characters the model's keys are written in.
Code(c) ==
    CASE c = "#" -> 35 [] c = "." -> 46 [] c = "/" -> 47
      [] c = "0" -> 48 [] c = "1" -> 49 [] c = "2" -> 50 [] c = "3" -> 51
      [] c = "4" -> 52 [] c = "5" -> 53 [] c = "6" -> 54 [] c = "7" -> 55
      [] c = "8" -> 56 [] c = "9" -> 57
      [] c = "D" -> 68 [] c = "M" -> 77
      [] c = "a" -> 97 [] c = "b" -> 98 [] c = "d" -> 100 [] c = "e" -> 101
      [] c = "m" -> 109 [] c = "u" -> 117 [] c = "v" -> 118 [] c = "x" -> 120

\* str.lower() on one character.
LowerChar(c) == CASE c = "D" -> "d" [] c = "M" -> "m" [] OTHER -> c

Lower(s) == [j \in 1..Len(s) |-> LowerChar(s[j])]

\* `c in s`
Contains(s, c) == \E j \in 1..Len(s) : s[j] = c

\* Positions of character c in s.
Positions(s, c) == {j \in 1..Len(s) : s[j] = c}

MinOf(S) == CHOOSE x \in S : \A y \in S : x <= y
MaxOf(S) == CHOOSE x \in S : \A y \in S : x >= y

\* str.startswith / DynamoDB begins_with(attribute, prefix)
BeginsWith(s, prefix) ==
    /\ Len(prefix) <= Len(s)
    /\ SubSeq(s, 1, Len(prefix)) = prefix

\* Order of two strings as DynamoDB orders sort keys (by code point).
StrLess(a, b) ==
    \E j \in 1..(Len(a) + 1) :
        /\ j <= Len(b) + 1
        /\ \A h \in 1..(j - 1) : a[h] = b[h]
        /\ IF j > Len(a) THEN j <= Len(b)
           ELSE j <= Len(b) /\ Code(a[j]) < Code(b[j])

\* key.split("/", 1): the parts around the first "/", or the key alone.
Split1(key) ==
    IF Contains(key, "/")
    THEN LET j == MinOf(Positions(key, "/"))
         IN <<SubSeq(key, 1, j - 1), SubSeq(key, j + 1, Len(key))>>
    ELSE <<key>>

\* `len(parts) != 2 or not parts[1]` is false: the key names a user and a file.
WellFormed(key) == Len(Split1(key)) = 2 /\ Split1(key)[2] # <<>>

UserOf(key) == Split1(key)[1]
FilenameOf(key) == Split1(key)[2]

\* filename.rsplit(".", 1)[-1].lower() if "." in filename else ""
ExtOf(filename) ==
    IF Contains(filename, ".")
    THEN Lower(SubSeq(filename, MaxOf(Positions(filename, ".")) + 1, Len(filename)))
    ELSE <<>>

\* The allow-list members the model's file names can match.
ALLOWED_EXTENSIONS == { <<"m", "d">>, <<"p", "d", "f">>, <<"d", "o", "c", "x">>,
                        <<"t", "x", "t">>, <<"c", "s", "v">>, <<"p", "n", "g">>,
                        <<"j", "p", "g">>, <<"j", "p", "e", "g">>, <<"t", "i", "f", "f">> }

DigitChar(d) ==
    CASE d = 0 -> "0" [] d = 1 -> "1" [] d = 2 -> "2" [] d = 3 -> "3" [] d = 4 -> "4"
      [] d = 5 -> "5" [] d = 6 -> "6" [] d = 7 -> "7" [] d = 8 -> "8" [] d = 9 -> "9"

\* str(n) for n >= 0
RECURSIVE Decimal(_)
Decimal(n) == IF n < 10 THEN <<DigitChar(n)>>
              ELSE Decimal(n \div 10) \o <<DigitChar(n % 10)>>

\* f"{n:05d}" : zero-padded to at least five digits
Pad5(n) ==
    LET d == Decimal(n)
    IN  IF Len(d) >= 5 THEN d ELSE [j \in 1..(5 - Len(d)) |-> "0"] \o d

\* chunk_id = f"{doc_key}#{chunk_idx:05d}"
ChunkId(doc_key, chunk_idx) == doc_key \o <<"#">> \o Pad5(chunk_idx)

\* =========================================================================
\* Stores of the ingestion pipeline
\* =========================================================================

KeyA == <<"u", "/", "a", ".", "m", "d">>                     \* u/a.md
KeyB == <<"u", "/", "a", ".", "m", "d", ".", "M", "D">>      \* u/a.md.MD
KeyX == <<"u", "/", "b", ".", "e", "x", "e">>                \* u/b.exe
KeyM == <<"u">>                                              \* no "/" in it

\* Keys of upload records, already passed through urllib.parse.unquote_plus
\* (none of them holds "+" or "%", which is all that call rewrites).
Keys == {KeyA, KeyB, KeyX, KeyM}

NoObject == [size |-> -1, gen |-> -1, n |-> -1]

MaxBytes == MAX_FILE_SIZE_MB * 1024 * 1024

\* What an uploaded object can hold: its ContentLength and its text, the text
\* given by its generation (which upload it is) and the number n of chunks
\* chunk_text splits it into; n = 0 is a text that is empty after strip().
Contents(g) ==
    { [size |-> MaxBytes, gen |-> g, n |-> n] : n \in 0..MaxChunks }
      \cup { [size |-> MaxBytes + 1, gen |-> g, n |-> 1] }

\* The body of chunk idx of a text: it names the text it was cut from (its
\* generation and its number of chunks) and its position in it.
ChunkBody(text, idx) == <<text.gen, text.n, idx>>

\* chunks = chunk_text(raw_text): the (index, body) pairs of a text.
ChunkList(text) == [j \in 1..text.n |-> <<j - 1, ChunkBody(text, j - 1)>>]

\* filename = doc_key.split("/")[-1]
BaseName(doc_key) ==
    IF Contains(doc_key, "/")
    THEN SubSeq(doc_key, MaxOf(Positions(doc_key, "/")) + 1, Len(doc_key))
    ELSE doc_key

\* The item store_chunk writes for chunk (chunk_idx, body) of doc_key.
ChunkItem(doc_key, chunk_idx, body) ==
    [user_id |-> UserOf(doc_key), chunk_id |-> ChunkId(doc_key, chunk_idx),
     doc_key |-> doc_key, filename |-> BaseName(doc_key), chunk_index |-> chunk_idx,
     chunk_text |-> body, embedding |-> "vector"]

\* Primary keys of the two tables.
ChunkKey(x) == <<x.user_id, x.chunk_id>>
StatusKey(x) == <<x.user_id, x.doc_key>>

\* table.put_item: the item replaces the one with the same primary key.
PutChunk(table, item) == {x \in table : ChunkKey(x) # ChunkKey(item)} \cup {item}
\* Variant of PutStatus that adds the item next to the one it should replace.
PutStatus_add(table, item) == table \cup {item}

PutStatus(table, item) == {x \in table : StatusKey(x) # StatusKey(item)} \cup {item}

\* The items of a set ordered by sort key, as Query returns them.
RECURSIVE SortByChunkId(_)
SortByChunkId(S) ==
    IF S = {} THEN <<>>
    ELSE LET first == CHOOSE x \in S : \A y \in S \ {x} : StrLess(x.chunk_id, y.chunk_id)
         IN  <<first>> \o SortByChunkId(S \ {first})

\* KeyConditionExpression = Key("user_id").eq(user_id) & Key("chunk_id").begins_with(prefix)
KeyCondition(user_id, prefix) ==
    {x \in chunks : x.user_id = user_id /\ BeginsWith(x.chunk_id, prefix)}

\* One table.query call without ExclusiveStartKey: the first page of the matches
\* (response["Items"]); the rest stays behind LastEvaluatedKey, which is not read.
QueryFirstPage(user_id, prefix) ==
    LET all == SortByChunkId(KeyCondition(user_id, prefix))
    IN  SubSeq(all, 1, IF Len(all) < PageLimit THEN Len(all) ELSE PageLimit)

\* The item _update_status writes.
StatusItem(doc_key, st, chunk_count, error) ==
    [user_id |-> UserOf(doc_key), doc_key |-> doc_key, status |-> st,
     chunk_count |-> chunk_count, error |-> error]

\* _update_status: no-op without DOCUMENT_STATUS_TABLE, else put_item.
UpdateStatus(doc_key, st, chunk_count, error) ==
    IF status_table
    THEN PutStatus(status, StatusItem(doc_key, st, chunk_count, error))
    ELSE status

\* The chunks a complete generation of a document consists of.
Generation(doc_key, text) ==
    { ChunkItem(doc_key, j - 1, ChunkBody(text, j - 1)) : j \in 1..text.n }

\* =========================================================================
\* Ingestion: document_processor.lambda_handler, one invocation i
\* =========================================================================

\* The Lambda invocations that can be alive together.
Invs == {1, 2}

CurKey(i) == inv[i].batch[inv[i].pos]
HasRecord(i) == inv[i].pc = "next" /\ inv[i].pos <= Len(inv[i].batch)

\* History entry opened when a record's run starts.
NewEntry(key) ==
    [key |-> key, gen |-> -1, n |-> -1, puts |-> 0, faults |-> {}, calls |-> {},
     indexed |-> [count |-> -1, puts |-> -1], result |-> "none"]

LastLog(i) == log[i][Len(log[i])]
SetLast(i, e) == [log EXCEPT ![i] = [@ EXCEPT ![Len(@)] = e]]

\* results.append(...); the loop moves to the next record.
Finish(i, result) ==
    [inv[i] EXCEPT !.pc = "next", !.pos = @ + 1, !.items = <<>>, !.k = 0,
                   !.text = NoObject, !.msg = "",
                   !.results = Append(@, result)]

ErrorResult(key, msg) == [key |-> key, status |-> "error", error |-> msg, chunks |-> 0]
OkResult(key, n) == [key |-> key, status |-> "ok", error |-> "", chunks |-> n]

\* `if len(parts) != 2 or not parts[1]: continue`
SkipRecord(i) ==
    /\ HasRecord(i)
    /\ ~WellFormed(CurKey(i))
    /\ inv' = [inv EXCEPT ![i].pos = @ + 1]
    /\ UNCHANGED <<status_table, status, objects, chunks, log, faults>>
    /\ UNCHANGED <<qvars, pvars>>

\* _update_status(user_id, key, "processing"), then the extension guard.
StatusProcessing(i) ==
    /\ HasRecord(i)
    /\ WellFormed(CurKey(i))
    /\ status' = UpdateStatus(CurKey(i), "processing", 0, "")
    /\ inv' = [inv EXCEPT ![i].pc =
                  IF ExtOf(FilenameOf(CurKey(i))) \in ALLOWED_EXTENSIONS
                  THEN "head_object" ELSE "guard_error",
                          ![i].msg =
                  IF ExtOf(FilenameOf(CurKey(i))) \in ALLOWED_EXTENSIONS
                  THEN "" ELSE "Unsupported file type"]
    /\ log' = [log EXCEPT ![i] = Append(@, NewEntry(CurKey(i)))]
    /\ UNCHANGED <<status_table, objects, chunks, faults>>
    /\ UNCHANGED <<qvars, pvars>>

\* A guard rejected the record: _update_status(..., "error", error=msg);
\* results.append(error); continue.
StatusGuardError(i) ==
    /\ inv[i].pc = "guard_error"
    /\ status' = UpdateStatus(CurKey(i), "error", 0, inv[i].msg)
    /\ inv' = [inv EXCEPT ![i] = Finish(i, ErrorResult(CurKey(i), inv[i].msg))]
    /\ log' = SetLast(i, [LastLog(i) EXCEPT !.result = "error"])
    /\ UNCHANGED <<status_table, objects, chunks, faults>>
    /\ UNCHANGED <<qvars, pvars>>

\* Variant of SizeExceeds that also rejects a size equal to the cap.
SizeExceeds_geq(size_bytes) == size_bytes >= MaxBytes

\* `size_bytes > MAX_FILE_SIZE_MB * 1024 * 1024`
SizeExceeds(size_bytes) == size_bytes > MaxBytes

\* head = s3_client.head_object(...), then the size guard. A key without an
\* object makes head_object raise (404).
HeadObject(i) ==
    /\ inv[i].pc = "head_object"
    /\ IF objects[CurKey(i)] = NoObject
       THEN /\ inv' = [inv EXCEPT ![i].pc = "except", ![i].msg = "head_object"]
            /\ log' = SetLast(i, [LastLog(i) EXCEPT !.faults = @ \cup {"s3"},
                                                    !.calls = @ \cup {"head_object"}])
       ELSE /\ inv' = [inv EXCEPT ![i].pc =
                         IF SizeExceeds(objects[CurKey(i)].size)
                         THEN "guard_error" ELSE "extract_text",
                                  ![i].msg =
                         IF SizeExceeds(objects[CurKey(i)].size)
                         THEN "File exceeds limit" ELSE ""]
            /\ log' = SetLast(i, [LastLog(i) EXCEPT !.calls = @ \cup {"head_object"}])
    /\ UNCHANGED <<status_table, status, objects, chunks, faults>>
    /\ UNCHANGED <<qvars, pvars>>

\* raw_text = extract_text(bucket, key), then the empty-text guard.
ExtractText(i) ==
    /\ inv[i].pc = "extract_text"
    /\ IF objects[CurKey(i)] = NoObject
       THEN /\ inv' = [inv EXCEPT ![i].pc = "except", ![i].msg = "extract_text"]
            /\ log' = SetLast(i, [LastLog(i) EXCEPT !.faults = @ \cup {"s3"},
                                                    !.calls = @ \cup {"extract_text"}])
       ELSE /\ inv' = [inv EXCEPT ![i].text = objects[CurKey(i)],
                                  ![i].pc =
                         IF objects[CurKey(i)].n = 0
                         THEN "guard_error" ELSE "query",
                                  ![i].msg =
                         IF objects[CurKey(i)].n = 0
                         THEN "No extractable text" ELSE ""]
            /\ log' = SetLast(i, [LastLog(i) EXCEPT !.gen = objects[CurKey(i)].gen,
                                                    !.n = objects[CurKey(i)].n,
                                                    !.calls = @ \cup {"extract_text"}])
    /\ UNCHANGED <<status_table, status, objects, chunks, faults>>
    /\ UNCHANGED <<qvars, pvars>>

\* delete_existing_chunks: response = table.query(...); items = response["Items"]
QueryExisting(i) ==
    /\ inv[i].pc = "query"
    /\ LET items == QueryFirstPage(UserOf(CurKey(i)), CurKey(i))
       IN  inv' = [inv EXCEPT ![i].items = items,
                              ![i].k = 0,
                              ![i].pc = IF items = <<>> THEN "store" ELSE "delete"]
    /\ UNCHANGED <<status_table, status, objects, chunks, log, faults>>
    /\ UNCHANGED <<qvars, pvars>>

\* delete_existing_chunks: batch.delete_item(Key=...) for the next item read.
\* The batch writer sends the deletes as separate, non-atomic writes.
DeleteItem(i) ==
    /\ inv[i].pc = "delete"
    /\ chunks' = {x \in chunks : ChunkKey(x) # ChunkKey(Head(inv[i].items))}
    /\ inv' = [inv EXCEPT ![i].items = Tail(@),
                          ![i].pc = IF Tail(inv[i].items) = <<>> THEN "store" ELSE "delete"]
    /\ UNCHANGED <<status_table, status, objects, log, faults>>
    /\ UNCHANGED <<qvars, pvars>>

\* One iteration of `for chunk_idx, chunk_body in chunks`:
\* embedding = generate_embedding(chunk_body); store_chunk(...).
EmbedAndStore(i) ==
    /\ inv[i].pc = "store"
    /\ LET c == ChunkList(inv[i].text)[inv[i].k + 1]
       IN  chunks' = PutChunk(chunks, ChunkItem(CurKey(i), c[1], c[2]))
    /\ inv' = [inv EXCEPT ![i].k = @ + 1,
                          ![i].pc = IF inv[i].k + 1 = Len(ChunkList(inv[i].text))
                                    THEN "status_indexed" ELSE "store"]
    /\ log' = SetLast(i, [LastLog(i) EXCEPT !.puts = @ + 1])
    /\ UNCHANGED <<status_table, status, objects, faults>>
    /\ UNCHANGED <<qvars, pvars>>

\* Variant of IndexedChunkCount that reports the last chunk_idx of the loop.
IndexedChunkCount_lastidx(i) == inv[i].k - 1

\* len(chunks), the chunk_count of the indexed status.
IndexedChunkCount(i) == Len(ChunkList(inv[i].text))

\* _update_status(user_id, key, "indexed", chunk_count=len(chunks));
\* results.append(ok).
StatusIndexed(i) ==
    /\ inv[i].pc = "status_indexed"
    /\ status' = UpdateStatus(CurKey(i), "indexed", IndexedChunkCount(i), "")
    /\ inv' = [inv EXCEPT ![i] = Finish(i, OkResult(CurKey(i), Len(ChunkList(inv[i].text))))]
    /\ log' = SetLast(i, [LastLog(i) EXCEPT
                  !.indexed = [count |-> IndexedChunkCount(i), puts |-> LastLog(i).puts],
                  !.result = "ok"])
    /\ UNCHANGED <<status_table, objects, chunks, faults>>
    /\ UNCHANGED <<qvars, pvars>>

\* `except Exception as e:` _update_status(..., "error", error=str(e));
\* results.append(error).
StatusExcept(i) ==
    /\ inv[i].pc = "except"
    /\ status' = UpdateStatus(CurKey(i), "error", 0, inv[i].msg)
    /\ inv' = [inv EXCEPT ![i] = Finish(i, ErrorResult(CurKey(i), inv[i].msg))]
    /\ log' = SetLast(i, [LastLog(i) EXCEPT !.result = "error"])
    /\ UNCHANGED <<status_table, objects, chunks, faults>>
    /\ UNCHANGED <<qvars, pvars>>

\* return {"processed": results}
Return(i) ==
    /\ inv[i].pc = "next"
    /\ inv[i].pos > Len(inv[i].batch)
    /\ inv' = [inv EXCEPT ![i].pc = "returned"]
    /\ UNCHANGED <<status_table, status, objects, chunks, log, faults>>
    /\ UNCHANGED <<qvars, pvars>>

\* ------------------------------------------------------------ failures

\* An external call inside the try block raises: control moves to the handler.
Raise(i, kind, entry) ==
    /\ faults > 0
    /\ faults' = faults - 1
    /\ inv' = [inv EXCEPT ![i].pc = "except", ![i].msg = kind]
    /\ log' = [log EXCEPT ![i] = entry]
    /\ UNCHANGED <<status_table, status, objects, chunks>>
    /\ UNCHANGED <<qvars, pvars>>

\* table.put_item inside _update_status raises (it is not caught there):
\* at the "processing" write, at a guard's "error" write or at the "indexed" write.
StatusFault(i) ==
    /\ status_table
    /\ \/ /\ HasRecord(i) /\ WellFormed(CurKey(i))
          /\ Raise(i, "status", Append(log[i],
                     [NewEntry(CurKey(i)) EXCEPT !.faults = {"status"}]))
       \/ /\ inv[i].pc \in {"guard_error", "status_indexed"}
          /\ Raise(i, "status", [log[i] EXCEPT ![Len(log[i])].faults = @ \cup {"status"}])

\* head_object raises a ClientError.
HeadFault(i) ==
    /\ inv[i].pc = "head_object"
    /\ Raise(i, "head_object", [log[i] EXCEPT ![Len(log[i])].faults = @ \cup {"s3"},
                                               ![Len(log[i])].calls = @ \cup {"head_object"}])

\* get_object or Textract raises inside extract_text.
ExtractFault(i) ==
    /\ inv[i].pc = "extract_text"
    /\ Raise(i, "extract_text", [log[i] EXCEPT ![Len(log[i])].faults = @ \cup {"extract"},
                                                ![Len(log[i])].calls = @ \cup {"extract_text"}])

\* The chunks table raises: at the query, at a delete or at a put_item.
ChunkStoreFault(i) ==
    /\ inv[i].pc \in {"query", "delete", "store"}
    /\ Raise(i, "chunks", [log[i] EXCEPT ![Len(log[i])].faults = @ \cup {"chunks"}])

\* bedrock_runtime.invoke_model raises inside generate_embedding (uncaught there).
EmbedFault(i) ==
    /\ inv[i].pc = "store"
    /\ Raise(i, "embedding", [log[i] EXCEPT ![Len(log[i])].faults = @ \cup {"embedding"}])

\* _update_status raises inside the except block: the exception leaves
\* lambda_handler and the invocation ends without returning.
HandlerStatusFault(i) ==
    /\ status_table
    /\ inv[i].pc = "except"
    /\ faults > 0
    /\ faults' = faults - 1
    /\ inv' = [inv EXCEPT ![i].pc = "raised"]
    /\ log' = SetLast(i, [LastLog(i) EXCEPT !.faults = @ \cup {"status"},
                                            !.result = "raised"])
    /\ UNCHANGED <<status_table, status, objects, chunks>>
    /\ UNCHANGED <<qvars, pvars>>

\* ------------------------------------------------------------ initial states

IdleQuota ==
    /\ usage_table = FALSE
    /\ usage = {}
    /\ qpc = [p \in Callers |-> "idle"]
    /\ qret = [p \in Callers |-> "none"]
    /\ qstat = [calls |-> 0, done |-> 0, trues |-> 0, falses |-> 0, raised |-> 0,
                count0 |-> 0, race |-> FALSE, last |-> [pre |-> 0, ret |-> "none"]]

\* An invocation slot that is not in use.
NoInvocation ==
    [batch |-> <<>>, pos |-> 1, pc |-> "returned", text |-> NoObject,
     items |-> <<>>, k |-> 0, msg |-> "", results |-> <<>>]

IdleIngestion ==
    /\ status_table = FALSE
    /\ status = {}
    /\ objects = [k \in Keys |-> NoObject]
    /\ chunks = {}
    /\ inv = [i \in Invs |-> NoInvocation]
    /\ log = [i \in Invs |-> <<>>]

\* No call of chunk_text is being followed.
IdleChunker ==
    chunker = [pc |-> "idle", raw |-> <<>>, text |-> <<>>, chunk_size |-> 0, overlap |-> 0,
               start |-> 0, idx |-> 0, chunks |-> <<>>, iter |-> 0]

\* No chat request is being followed.
IdleRag == rag = [pc |-> "idle"]

\* No call of _cosine_similarity is being followed.
IdleCosine == cosine = [pc |-> "idle"]

\* No delete request is being followed.
IdleDelete == del = [pc |-> "idle"]

\* No call of extract_text is being followed.
IdleOcr == ocr = [pc |-> "idle"]

\* No chat request is being followed.
IdleReq == req = [p \in Callers |-> [pc |-> "idle"]]

\* The locals of an invocation that received `batch`.
NewInvocation(batch) ==
    [batch |-> batch, pos |-> 1, pc |-> "next", text |-> NoObject,
     items |-> <<>>, k |-> 0, msg |-> "", results |-> <<>>]

\* Sequences over S of length 1..n
SeqsUpTo(S, n) == UNION { [1..m -> S] : m \in 1..n }

InSeq(x, s) == \E j \in 1..Len(s) : s[j] = x

\* A complete earlier generation (generation 0) of old chunks, left by an
\* earlier successful run.
OldText(old) == [size |-> MaxBytes, gen |-> 0, n |-> old]

\* One invocation with a batch of 1..maxlen upload records. Every record's
\* object exists; the documents with an allowed extension may have a complete
\* earlier generation indexed.
InitRecords(maxlen) ==
    /\ IdleQuota
    /\ IdleChunker
    /\ IdleRag
    /\ IdleCosine
    /\ IdleDelete
    /\ IdleOcr
    /\ IdleReq
    /\ faults = MaxFaults
    /\ status_table \in BOOLEAN
    /\ \E batch \in SeqsUpTo(Keys, maxlen) :
          /\ inv = [i \in Invs |-> IF i = 1 THEN NewInvocation(batch) ELSE NoInvocation]
          /\ objects \in [Keys -> Contents(1) \cup {NoObject}]
          /\ \A k \in Keys : (InSeq(k, batch) /\ WellFormed(k)) <=> objects[k] # NoObject
    /\ \E oldA, oldB \in 0..MaxOld :
          /\ chunks = Generation(KeyA, OldText(oldA)) \cup Generation(KeyB, OldText(oldB))
          /\ status = IF status_table
                      THEN { StatusItem(k[1], "indexed", k[2], "") :
                               k \in {kk \in {<<KeyA, oldA>>, <<KeyB, oldB>>} : kk[2] > 0} }
                      ELSE {}
    /\ log = [i \in Invs |-> <<>>]

\* An S3 event with several records.
InitBatch == InitRecords(MaxBatch)

\* An S3 event with one record: a single ingestion run.
InitRun == InitRecords(1)

NextBatch ==
    \E i \in Invs :
        \/ SkipRecord(i)
        \/ StatusProcessing(i)
        \/ StatusGuardError(i)
        \/ HeadObject(i)
        \/ ExtractText(i)
        \/ QueryExisting(i)
        \/ DeleteItem(i)
        \/ EmbedAndStore(i)
        \/ StatusIndexed(i)
        \/ StatusExcept(i)
        \/ Return(i)
        \/ StatusFault(i)
        \/ HeadFault(i)
        \/ ExtractFault(i)
        \/ ChunkStoreFault(i)
        \/ EmbedFault(i)
        \/ HandlerStatusFault(i)

SpecBatch == InitBatch /\ [][NextBatch]_vars

SpecRun == InitRun /\ [][NextBatch]_vars

\* A client PUTs an object under `key` (through the presigned URL); S3 sends
\* the ObjectCreated notification, which starts invocation i with that record.
Upload(i, key) ==
    /\ inv[i].pc = "idle"
    /\ \E c \in Contents(i) :
          objects' = [objects EXCEPT ![key] = c]
    /\ inv' = [inv EXCEPT ![i] = NewInvocation(<<key>>)]
    /\ UNCHANGED <<status_table, status, chunks, log, faults>>
    /\ UNCHANGED <<qvars, pvars>>

\* Two uploads of the same key: the first has happened and its invocation is
\* about to run; the second upload, and with it the second invocation, comes
\* at any later moment. No service fails.
InitRace ==
    /\ IdleQuota
    /\ IdleChunker
    /\ IdleRag
    /\ IdleCosine
    /\ IdleDelete
    /\ IdleOcr
    /\ IdleReq
    /\ faults = 0
    /\ status_table = TRUE
    /\ status = {}
    /\ chunks = {}
    /\ \E c \in Contents(1) :
          objects = [k \in Keys |-> IF k = KeyA THEN c ELSE NoObject]
    /\ inv = [i \in Invs |-> IF i = 1 THEN NewInvocation(<<KeyA>>)
                             ELSE [NoInvocation EXCEPT !.pc = "idle"]]
    /\ log = [i \in Invs |-> <<>>]

NextRace ==
    \E i \in Invs :
        \/ Upload(i, KeyA)
        \/ StatusProcessing(i)
        \/ StatusGuardError(i)
        \/ HeadObject(i)
        \/ ExtractText(i)
        \/ QueryExisting(i)
        \/ DeleteItem(i)
        \/ EmbedAndStore(i)
        \/ StatusIndexed(i)
        \/ Return(i)

SpecRace == InitRace /\ [][NextRace]_vars

\* The usage table at the start: no item, or a counter the code can have written.
InitQuota ==
    /\ usage_table \in BOOLEAN
    /\ \E c \in 0..DAILY_MSG_LIMIT :
          /\ usage \in { {}, {[user_id |-> QUser, date |-> QToday, request_count |-> c]} }
          /\ (c = 0 => usage = {})
          /\ (~usage_table => usage = {})
          /\ qstat = [calls |-> 0, done |-> 0, trues |-> 0, falses |-> 0, raised |-> 0,
                      count0 |-> IF usage = {} THEN 0 ELSE c,
                      race |-> FALSE,
                      last |-> [pre |-> 0, ret |-> "none"]]
    /\ qpc = [p \in Callers |-> "idle"]
    /\ qret = [p \in Callers |-> "none"]
    /\ faults \in {0, MaxFaults}
    /\ IdleIngestion
    /\ IdleChunker
    /\ IdleRag
    /\ IdleCosine
    /\ IdleDelete
    /\ IdleOcr
    /\ IdleReq

NextQuota ==
    \E p \in Callers :
        \/ QuotaFailOpen(p)
        \/ QuotaSend(p)
        \/ QuotaUpdateOk(p)
        \/ QuotaConditionFailed(p)
        \/ QuotaStoreError(p)

SpecQuota == InitQuota /\ [][NextQuota]_vars


\* =========================================================================
\* Chunking: document_processor.chunk_text
\* =========================================================================

\* The characters the texts are written in: a letter, a space, a period and a
\* newline (the characters chunk_text tells apart).
Alphabet == {"a", " ", ".", "\n"}

\* str.isspace() on one character.
IsSpace(c) == c \in {" ", "\n"}

\* str.strip()
RECURSIVE LStrip(_)
LStrip(s) == IF s # <<>> /\ IsSpace(Head(s)) THEN LStrip(Tail(s)) ELSE s

RECURSIVE RStrip(_)
RStrip(s) ==
    IF s # <<>> /\ IsSpace(s[Len(s)]) THEN RStrip(SubSeq(s, 1, Len(s) - 1)) ELSE s

Strip(s) == RStrip(LStrip(s))

\* re.sub(r"\n{3,}", "\n\n", s): of every run of three or more newlines the
\* first two stay, i.e. a newline goes when the two characters before it are
\* newlines.
RECURSIVE CollapseNewlines(_, _)
CollapseNewlines(s, j) ==
    IF j > Len(s) THEN <<>>
    ELSE IF j >= 3 /\ s[j] = "\n" /\ s[j - 1] = "\n" /\ s[j - 2] = "\n"
         THEN CollapseNewlines(s, j + 1)
         ELSE <<s[j]>> \o CollapseNewlines(s, j + 1)

\* text = re.sub(r"\n{3,}", "\n\n", text.strip())
Normalise(text) == CollapseNewlines(Strip(text), 1)

\* How Python turns a slice bound into a position 0..n: a negative bound counts
\* from the end, and the result is clamped to 0..n.
SliceIndex(j, n) ==
    IF j < 0 THEN (IF j + n < 0 THEN 0 ELSE j + n)
    ELSE IF j > n THEN n ELSE j

\* s[a:b]
Slice(s, a, b) ==
    LET lo == SliceIndex(a, Len(s))
        hi == SliceIndex(b, Len(s))
    IN  IF lo >= hi THEN <<>> ELSE SubSeq(s, lo + 1, hi)

\* s.rfind(sub, a, b): the highest 0-based index j with s[j:j+len(sub)] = sub
\* lying inside s[a:b], or -1.
RFind(s, sub, a, b) ==
    LET lo == SliceIndex(a, Len(s))
        hi == SliceIndex(b, Len(s))
        hits == {j \in lo..(hi - Len(sub)) : SubSeq(s, j + 1, j + Len(sub)) = sub}
    IN  IF hits = {} THEN -1 ELSE MaxOf(hits)

\* max(a, b, c)
Max3(a, b, c) == MaxOf({a, b, c})

\* The `end` of the window that starts at `start`: start + chunk_size, moved
\* back to a sentence boundary or to the last space when the window does not
\* reach the end of the text.
WindowEnd(text, start, chunk_size, overlap) ==
    LET end == start + chunk_size
        boundary == Max3(RFind(text, <<".", " ">>, start, end),
                         RFind(text, <<".", "\n">>, start, end),
                         RFind(text, <<"\n", "\n">>, start, end))
        space == RFind(text, <<" ">>, start, end)
    IN  IF end < Len(text)
        THEN IF boundary # -1 /\ boundary > start + overlap
             THEN boundary + 1
             ELSE IF space > start THEN space ELSE end
        ELSE end

\* Variant of NextStart that slides the window forward past its end.
NextStart_forward(end, overlap) == end + overlap

\* start = end - overlap  # slide window with overlap
NextStart(end, overlap) == end - overlap

\* Variant of ChunkOf that keeps the window as it is.
ChunkOf_raw(text, start, end) == Slice(text, start, end)

\* chunk = text[start:end].strip()
ChunkOf(text, start, end) == Strip(Slice(text, start, end))

\* chunk_text is called with (text, chunk_size, overlap); the whitespace is
\* normalised and the locals are set up.
ChunkNormalise ==
    /\ chunker.pc = "call"
    /\ chunker' = [chunker EXCEPT !.pc = "loop", !.text = Normalise(chunker.raw),
                                  !.start = 0, !.idx = 0, !.chunks = <<>>]
    /\ UNCHANGED <<qvars, faults, ivars, rag, cosine, del, ocr, req>>

\* One iteration of `while start < len(text)`. The history keeps, with each
\* chunk, the positions lo..hi-1 of the text that text[start:end] took it from.
ChunkStep ==
    /\ chunker.pc = "loop"
    /\ chunker.start < Len(chunker.text)
    /\ chunker.iter < MaxIter
    /\ LET end == WindowEnd(chunker.text, chunker.start, chunker.chunk_size, chunker.overlap)
           chunk == ChunkOf(chunker.text, chunker.start, end)
       IN  chunker' = [chunker EXCEPT
                          !.chunks = IF chunk # <<>>
                                     THEN Append(@, [idx |-> chunker.idx, text |-> chunk,
                                                     lo |-> SliceIndex(chunker.start, Len(chunker.text)),
                                                     hi |-> SliceIndex(end, Len(chunker.text))])
                                     ELSE @,
                          !.idx = IF chunk # <<>> THEN @ + 1 ELSE @,
                          !.start = NextStart(end, chunker.overlap),
                          !.iter = @ + 1]
    /\ UNCHANGED <<qvars, faults, ivars, rag, cosine, del, ocr, req>>

\* The loop condition is false: `return chunks`.
ChunkReturn ==
    /\ chunker.pc = "loop"
    /\ ~(chunker.start < Len(chunker.text))
    /\ chunker' = [chunker EXCEPT !.pc = "done"]
    /\ UNCHANGED <<qvars, faults, ivars, rag, cosine, del, ocr, req>>

\* Texts of up to n characters.
Texts(n) == UNION { [1..m -> Alphabet] : m \in 0..n }

\* chunk_text(text, chunk_size, overlap) is called with any text and any
\* 0 <= overlap < chunk_size.
InitChunk ==
    /\ IdleQuota
    /\ IdleIngestion
    /\ IdleRag
    /\ IdleCosine
    /\ IdleDelete
    /\ IdleOcr
    /\ IdleReq
    /\ faults = 0
    /\ \E text \in Texts(MaxText) : \E size \in 1..MaxSize : \E ov \in 0..(size - 1) :
          chunker = [pc |-> "call", raw |-> text, text |-> <<>>, chunk_size |-> size,
                     overlap |-> ov, start |-> 0, idx |-> 0, chunks |-> <<>>, iter |-> 0]

NextChunk ==
    \/ ChunkNormalise
    \/ ChunkStep
    \/ ChunkReturn

SpecChunk == InitChunk /\ [][NextChunk]_vars

\* =========================================================================
\* Similarity: lambda_function._cosine_similarity (the same code as rag.py)
\* =========================================================================

\* sum(x * y for x, y in zip(a, b)), for lists of equal length
RECURSIVE Dot(_, _)
Dot(a, b) == IF a = <<>> \/ b = <<>> THEN 0
             ELSE Head(a) * Head(b) + Dot(Tail(a), Tail(b))

\* A float result is kept exact: the value num / sqrt(den2), den2 > 0. A result
\* with exc set is an exception raised instead of a value.
Float(num, den2) == [exc |-> "", num |-> num, den2 |-> den2]

\* 0.0
Zero == Float(0, 1)

\* dot / (norm_a * norm_b), with norm_a = sqrt(na2) and norm_b = sqrt(nb2)
Divide(dot, na2, nb2) ==
    IF na2 * nb2 = 0 THEN [exc |-> "ZeroDivisionError", num |-> 0, den2 |-> 1]
    ELSE Float(dot, na2 * nb2)

\* Variant of NormIsZero that looks at norm_a only.
NormIsZero_a(na2, nb2) == na2 = 0

\* `norm_a == 0 or norm_b == 0`
NormIsZero(na2, nb2) == na2 = 0 \/ nb2 = 0

\* _cosine_similarity(a, b)
CosineSimilarity(a, b) ==
    IF Len(a) # Len(b) \/ a = <<>> THEN Zero
    ELSE IF NormIsZero(Dot(a, a), Dot(b, b)) THEN Zero
    ELSE Divide(Dot(a, b), Dot(a, a), Dot(b, b))

\* x < y for two float results
ScoreLess(x, y) ==
    LET sq(v) == (IF v.num < 0 THEN -1 ELSE 1) * v.num * v.num
    IN  sq(x) * y.den2 < sq(y) * x.den2

\* One call _cosine_similarity(a, b).
CosineCall ==
    /\ cosine.pc = "call"
    /\ cosine' = [cosine EXCEPT !.pc = "done", !.result = CosineSimilarity(cosine.a, cosine.b)]
    /\ UNCHANGED <<qvars, faults, ivars, chunker, rag, del, ocr, req>>

\* Lists of up to n numbers.
Vectors(n) == UNION { [1..m -> {-1, 0, 1, 2}] : m \in 0..n }

InitCosine ==
    /\ IdleQuota
    /\ IdleIngestion
    /\ IdleChunker
    /\ IdleRag
    /\ IdleDelete
    /\ IdleOcr
    /\ IdleReq
    /\ faults = 0
    /\ \E a, b \in Vectors(MaxDim) :
          cosine = [pc |-> "call", a |-> a, b |-> b, result |-> Zero]

NextCosine == CosineCall

SpecCosine == InitCosine /\ [][NextCosine]_vars

\* =========================================================================
\* Retrieval: lambda_function.retrieve_context inside the chat handler
\* =========================================================================

RAG_SCORE_THRESHOLD == Float(3, 100)     \* 0.30 = 3 / sqrt(100)

KeyV == <<"v", "/", "a", ".", "m", "d">>                     \* v/a.md

\* json.dumps(v): the JSON text of a list of numbers, kept as the list.
JsonList(v) == [json |-> "list", value |-> v]

\* What the embedding attribute of a stored chunk can hold: the JSON text of a
\* list of numbers, a string that is not JSON, or nothing (no attribute).
StoredEmbeddings ==
    { JsonList(<<1, 0>>), JsonList(<<1, 1>>), JsonList(<<1, 4>>), JsonList(<<0, 0>>),
      JsonList(<<1>>), [json |-> "undecodable", value |-> <<>>],
      [json |-> "absent", value |-> <<>>] }

\* The vectors _embed_text returns for the queries.
QueryEmbeddings == { <<1, 0>>, <<1, 1>> }

\* json.loads(item.get('embedding', '[]')) raises JSONDecodeError.
Undecodable(item) == item.embedding.json = "undecodable"

\* json.loads(item.get('embedding', '[]'))
StoredEmb(item) == IF item.embedding.json = "absent" THEN <<>> ELSE item.embedding.value

\* Variant of UserPartition without the key condition.
UserPartition_all(user_id) == chunks

\* KeyConditionExpression: Key('user_id').eq(user_id)
UserPartition(user_id) == {x \in chunks : x.user_id = user_id}

\* The items of the partition after ExclusiveStartKey, in sort-key order.
Remaining(user_id, last_key) ==
    SortByChunkId({x \in UserPartition(user_id) :
                      IF last_key = <<>> THEN TRUE ELSE StrLess(last_key, x.chunk_id)})

\* Variant of BelowThreshold that drops nothing.
BelowThreshold_never(score) == FALSE

\* `if score < RAG_SCORE_THRESHOLD: continue`
BelowThreshold(score) == ScoreLess(score, RAG_SCORE_THRESHOLD)

\* The loop `for item in chunks`: the scored entries, in the order read.
RECURSIVE Scored(_, _)
Scored(query_embedding, items) ==
    IF items = <<>> THEN <<>>
    ELSE LET item == Head(items)
             rest == Scored(query_embedding, Tail(items))
         IN  IF Undecodable(item) THEN rest
             ELSE LET score == CosineSimilarity(query_embedding, StoredEmb(item))
                  IN  IF BelowThreshold(score) THEN rest
                      ELSE <<[chunk_id |-> item.chunk_id,
                              chunk_text |-> item.chunk_text,
                              filename |-> item.filename,
                              chunk_index |-> item.chunk_index,
                              score |-> score]>> \o rest

\* x put into a list sorted by descending score, behind the entries that
\* score as much as x or more.
RECURSIVE Insert(_, _)
Insert(sorted, x) ==
    IF sorted = <<>> THEN <<x>>
    ELSE IF ScoreLess(Head(sorted).score, x.score) THEN <<x>> \o sorted
         ELSE <<Head(sorted)>> \o Insert(Tail(sorted), x)

\* scored.sort(key=lambda x: x['score'], reverse=True): a stable sort, equal
\* scores keep their order.
RECURSIVE SortByScore(_)
SortByScore(scored) ==
    IF scored = <<>> THEN <<>>
    ELSE Insert(SortByScore(SubSeq(scored, 1, Len(scored) - 1)), scored[Len(scored)])

\* scored[:top_k]
TopK(sorted, top_k) == SubSeq(sorted, 1, IF Len(sorted) < top_k THEN Len(sorted) ELSE top_k)

\* retrieve_context returns `result` (or raises) and the chat handler goes on
\* to build the prompt.
RagReturn(result, raised) ==
    [rag EXCEPT !.pc = "prompt", !.result = result, !.raised = raised]

\* `if not chunks_table: return []`
RagNoTable ==
    /\ rag.pc = "retrieve"
    /\ ~rag.chunks_table
    /\ rag' = RagReturn(<<>>, FALSE)
    /\ UNCHANGED <<qvars, faults, ivars, chunker, cosine, del, ocr, req>>

\* query_embedding = _embed_text(query): the service answers with a vector.
RagEmbed ==
    /\ rag.pc = "retrieve"
    /\ rag.chunks_table
    /\ \E v \in QueryEmbeddings :
          rag' = [rag EXCEPT !.pc = "embedded", !.query_embedding = v]
    /\ UNCHANGED <<qvars, faults, ivars, chunker, cosine, del, ocr, req>>

\* _embed_text returns []: invoke_model raised (caught inside _embed_text) or
\* the answer held an empty vector.
RagEmbedNone ==
    /\ rag.pc = "retrieve"
    /\ rag.chunks_table
    /\ \E why \in {"raised", "empty"} :
          rag' = [rag EXCEPT !.pc = "embedded", !.query_embedding = <<>>, !.embed = why]
    /\ UNCHANGED <<qvars, faults, ivars, chunker, cosine, del, ocr, req>>

\* Variant of NotEmbedded that lets every result of _embed_text through.
NotEmbedded_never(query_embedding) == FALSE

\* `not query_embedding`
NotEmbedded(query_embedding) == query_embedding = <<>>

\* `if not query_embedding: return []`
RagCheckEmbedding ==
    /\ rag.pc = "embedded"
    /\ rag' = IF NotEmbedded(rag.query_embedding)
              THEN RagReturn(<<>>, FALSE)
              ELSE [rag EXCEPT !.pc = "query"]
    /\ UNCHANGED <<qvars, faults, ivars, chunker, cosine, del, ocr, req>>

\* One pass of `while True`: response = chunks_table.query(...). A page holds
\* at most PageLimit items; LastEvaluatedKey is set when items remain, and may
\* be set when the page is full and nothing remains.
RagQuery ==
    /\ rag.pc = "query"
    /\ LET rem == Remaining(rag.user_id, rag.last_key)
           page == SubSeq(rem, 1, IF Len(rem) < PageLimit THEN Len(rem) ELSE PageLimit)
       IN  \E more \in BOOLEAN :
              /\ Len(rem) > PageLimit => more
              /\ Len(rem) < PageLimit => ~more
              /\ rag' = [rag EXCEPT !.chunks = @ \o page,
                                    !.reads = @ + 1,
                                    !.last_key = IF more THEN page[Len(page)].chunk_id ELSE <<>>,
                                    !.pc = IF more THEN "query" ELSE "score"]
    /\ UNCHANGED <<qvars, faults, ivars, chunker, cosine, del, ocr, req>>

\* chunks_table.query raises: retrieve_context raises, and the chat handler's
\* `except Exception as rag_err` leaves context_chunks = [].
RagQueryFault ==
    /\ rag.pc = "query"
    /\ rag' = RagReturn(<<>>, TRUE)
    /\ UNCHANGED <<qvars, faults, ivars, chunker, cosine, del, ocr, req>>

\* `if not chunks: return []`, else score, sort and `return scored[:top_k]`.
RagScore ==
    /\ rag.pc = "score"
    /\ rag' = [RagReturn(TopK(SortByScore(Scored(rag.query_embedding, rag.chunks)), rag.top_k),
                         FALSE) EXCEPT !.scanned = TRUE]
    /\ UNCHANGED <<qvars, faults, ivars, chunker, cosine, del, ocr, req>>

\* The text of a fragment is kept as runs of one character each:
\* <<[c |-> " ", n |-> 2], [c |-> "a", n |-> 1500]>> is two spaces and 1500 a's.
Run(c, n) == [c |-> c, n |-> n]

\* str.strip() on a text kept as runs.
RECURSIVE LStripRuns(_)
LStripRuns(t) == IF t # <<>> /\ IsSpace(Head(t).c) THEN LStripRuns(Tail(t)) ELSE t

RECURSIVE RStripRuns(_)
RStripRuns(t) ==
    IF t # <<>> /\ IsSpace(t[Len(t)].c) THEN RStripRuns(SubSeq(t, 1, Len(t) - 1)) ELSE t

StripRuns(t) == RStripRuns(LStripRuns(t))

\* len() of a text kept as runs.
RECURSIVE LenRuns(_)
LenRuns(t) == IF t = <<>> THEN 0 ELSE Head(t).n + LenRuns(Tail(t))

\* len(chunk['chunk_text'].strip())
TextChars(chunk_text) == LenRuns(StripRuns(chunk_text))

\* Variant of OverBudget that also refuses a chunk that fills the budget exactly.
OverBudget_geq(total_chars, n) == total_chars + n >= RAG_MAX_CHARS

\* total_chars + len(text) > RAG_MAX_CHARS
OverBudget(total_chars, n) == total_chars + n > RAG_MAX_CHARS

\* The loop of build_rag_prompt over context_chunks[j..]: the labelled parts
\* taken while the running total stays within RAG_MAX_CHARS; the first chunk
\* that does not fit ends the loop.
RECURSIVE ContextParts(_, _, _)
ContextParts(context_chunks, j, total_chars) ==
    IF j > Len(context_chunks) THEN <<>>
    ELSE IF OverBudget(total_chars, TextChars(context_chunks[j].chunk_text)) THEN <<>>
    ELSE <<[filename |-> context_chunks[j].filename,
            chunk_index |-> context_chunks[j].chunk_index,
            text |-> StripRuns(context_chunks[j].chunk_text)]>>
         \o ContextParts(context_chunks, j + 1,
                         total_chars + TextChars(context_chunks[j].chunk_text))

\* A prompt: the user's question, framed or not with a CONTEXT block made of
\* the parts.
Prompt(framed, parts, user_message) ==
    [framed |-> framed, context |-> parts, question |-> user_message]

\* Variant of NoContext that takes every list as non-empty.
NoContext_never(context_chunks) == FALSE

\* `not context_chunks`
NoContext(context_chunks) == context_chunks = <<>>

\* build_rag_prompt(user_message, context_chunks)
BuildRagPrompt(user_message, context_chunks) ==
    IF NoContext(context_chunks) THEN Prompt(FALSE, <<>>, user_message)
    ELSE Prompt(TRUE, ContextParts(context_chunks, 1, 0), user_message)

\* augmented_message = build_rag_prompt(user_message, context_chunks)
ChatPrompt ==
    /\ rag.pc = "prompt"
    /\ rag' = [rag EXCEPT !.pc = "invoke",
                          !.prompt = BuildRagPrompt(rag.user_message, rag.result)]
    /\ UNCHANGED <<qvars, faults, ivars, chunker, cosine, del, ocr, req>>

\* The `sources` of the reply: one entry per context chunk.
Sources(context_chunks) ==
    [j \in 1..Len(context_chunks) |->
        [filename |-> context_chunks[j].filename,
         chunk_index |-> context_chunks[j].chunk_index,
         score |-> context_chunks[j].score]]

\* response = bedrock_runtime.invoke_model(...) with the augmented message;
\* the 200 reply carries `sources` only `if context_chunks`.
ChatInvoke ==
    /\ rag.pc = "invoke"
    /\ rag' = [rag EXCEPT !.pc = "replied",
                          !.sent = rag.prompt,
                          !.reply = [statusCode |-> 200,
                                     has_sources |-> rag.result # <<>>,
                                     sources |-> Sources(rag.result)]]
    /\ UNCHANGED <<qvars, faults, ivars, chunker, cosine, del, ocr, req>>

\* A chunk as store_chunk wrote it, with the embedding attribute emb and a
\* body of CHUNK_SIZE characters.
StoredChunk(doc_key, chunk_idx, emb) ==
    [ChunkItem(doc_key, chunk_idx, <<Run("a", CHUNK_SIZE)>>) EXCEPT !.embedding = emb]

\* A chat request of user u about to call retrieve_context; the chunk store
\* holds up to MaxStored chunks of u and one chunk of another user v.
InitRag ==
    /\ IdleQuota
    /\ IdleChunker
    /\ IdleCosine
    /\ IdleDelete
    /\ IdleOcr
    /\ IdleReq
    /\ faults = 0
    /\ status_table = FALSE
    /\ status = {}
    /\ objects = [k \in Keys |-> NoObject]
    /\ inv = [i \in Invs |-> NoInvocation]
    /\ log = [i \in Invs |-> <<>>]
    /\ \E n \in 0..MaxStored : \E embs \in [1..n -> StoredEmbeddings] :
          chunks = { StoredChunk(KeyA, j - 1, embs[j]) : j \in 1..n }
                     \cup { StoredChunk(KeyV, 0, JsonList(<<1, 1>>)) }
    /\ \E top_k \in 1..MaxTopK : \E table \in BOOLEAN :
          rag = [pc |-> "retrieve", chunks_table |-> table, user_id |-> UserOf(KeyA),
                 top_k |-> top_k, query_embedding |-> <<>>, embed |-> "ok",
                 last_key |-> <<>>, chunks |-> <<>>, reads |-> 0, scanned |-> FALSE,
                 result |-> <<>>, raised |-> FALSE,
                 user_message |-> "message",
                 prompt |-> Prompt(FALSE, <<>>, ""), sent |-> Prompt(FALSE, <<>>, ""),
                 reply |-> [statusCode |-> 0, has_sources |-> FALSE, sources |-> <<>>]]

NextRag ==
    \/ RagNoTable
    \/ RagEmbed
    \/ RagEmbedNone
    \/ RagCheckEmbedding
    \/ RagQuery
    \/ RagQueryFault
    \/ RagScore
    \/ ChatPrompt
    \/ ChatInvoke

SpecRag == InitRag /\ [][NextRag]_vars

\* Texts of fragments: short, long, filling the budget, one character over
\* it, padded with whitespace, and blank.
FragmentTexts ==
    { <<Run("a", 1500)>>, <<Run("a", 2500)>>, <<Run("a", RAG_MAX_CHARS)>>,
      <<Run("a", RAG_MAX_CHARS + 1)>>, <<Run(" ", 1), Run("a", 2500), Run("\n", 2)>>,
      <<Run("a", 1)>>, <<Run(" ", 3)>> }

\* The j-th entry of a ranked list returned by retrieve_context.
Fragment(j, text) ==
    [chunk_id |-> ChunkId(KeyA, j - 1), chunk_text |-> text, filename |-> BaseName(KeyA),
     chunk_index |-> j - 1, score |-> Float(1, 1)]

\* build_rag_prompt is called by the chat handler with a ranked list of up
\* to MaxFragments fragments.
InitPrompt ==
    /\ IdleQuota
    /\ IdleIngestion
    /\ IdleChunker
    /\ IdleCosine
    /\ IdleDelete
    /\ IdleOcr
    /\ IdleReq
    /\ faults = 0
    /\ \E n \in 0..MaxFragments : \E texts \in [1..n -> FragmentTexts] :
          rag = [pc |-> "prompt", chunks_table |-> TRUE, user_id |-> UserOf(KeyA),
                 top_k |-> MaxFragments, query_embedding |-> <<1, 1>>, embed |-> "ok",
                 last_key |-> <<>>, chunks |-> <<>>, reads |-> 1, scanned |-> TRUE,
                 result |-> [j \in 1..n |-> Fragment(j, texts[j])], raised |-> FALSE,
                 user_message |-> "message",
                 prompt |-> Prompt(FALSE, <<>>, ""), sent |-> Prompt(FALSE, <<>>, ""),
                 reply |-> [statusCode |-> 0, has_sources |-> FALSE, sources |-> <<>>]]

NextPrompt ==
    \/ ChatPrompt
    \/ ChatInvoke

SpecPrompt == InitPrompt /\ [][NextPrompt]_vars

\* =========================================================================
\* Delete: documents._delete_document (the same code as the DELETE branch of
\* lambda_function.handle_documents)
\* =========================================================================

\* Everything a step of the delete request leaves alone besides the stores.
delFrame == <<qvars, status_table, inv, log, chunker, rag, cosine, ocr, req>>

\* key = f"{user_id}/{filename}"
ObjectKey(user_id, filename) == user_id \o <<"/">> \o filename

\* The step after the chunk purge: the status delete, if the table is configured.
AfterPurge == IF status_table THEN "status_delete" ELSE "respond"

\* `if not filename: return 400`
DeleteNoFilename ==
    /\ del.pc = "start"
    /\ del.filename = <<>>
    /\ del' = [del EXCEPT !.pc = "done", !.statusCode = 400]
    /\ UNCHANGED <<faults, status, objects, chunks>>
    /\ UNCHANGED delFrame

\* An ingestion run for `key` is between its first status write and its end.
RunInProgress(key) ==
    \E i \in Invs : /\ inv[i].pc \notin {"idle", "next", "returned", "raised"}
                    /\ CurKey(i) = key

\* s3_client.delete_object(Bucket=vault_bucket, Key=key)
DeleteObject ==
    /\ del.pc = "start"
    /\ del.filename # <<>>
    /\ LET key == ObjectKey(del.user_id, del.filename)
       IN  /\ objects' = [objects EXCEPT ![key] = NoObject]
           /\ del' = [del EXCEPT !.key = key, !.s3_deleted = TRUE,
                                 !.running = RunInProgress(key),
                                 !.pc = IF del.chunks_table THEN "purge_query" ELSE AfterPurge]
    /\ UNCHANGED <<faults, status, chunks>>
    /\ UNCHANGED delFrame

\* delete_object raises a ClientError: `except ClientError` answers 500 and
\* nothing else is attempted.
DeleteObjectFault ==
    /\ del.pc = "start"
    /\ del.filename # <<>>
    /\ faults > 0
    /\ faults' = faults - 1
    /\ del' = [del EXCEPT !.key = ObjectKey(del.user_id, del.filename),
                          !.pc = "done", !.statusCode = 500]
    /\ UNCHANGED <<status, objects, chunks>>
    /\ UNCHANGED delFrame

\* resp = chunks_table.query(... begins_with(key)); chunk_items = resp.get('Items', [])
\* One call: the first page of the matches.
PurgeQuery ==
    /\ del.pc = "purge_query"
    /\ LET chunk_items == QueryFirstPage(del.user_id, del.key)
       IN  del' = [del EXCEPT !.chunk_items = chunk_items,
                              !.before = chunks,
                              !.pc = IF chunk_items = <<>> THEN AfterPurge ELSE "purge_delete"]
    /\ UNCHANGED <<faults, status, objects, chunks>>
    /\ UNCHANGED delFrame

\* batch.delete_item(Key=...) for the next of chunk_items; the batch writer
\* sends the deletes as separate, non-atomic writes.
PurgeDeleteItem ==
    /\ del.pc = "purge_delete"
    /\ chunks' = {x \in chunks : ChunkKey(x) # ChunkKey(Head(del.chunk_items))}
    /\ del' = [del EXCEPT !.chunk_items = Tail(@),
                          !.pc = IF Tail(del.chunk_items) = <<>> THEN AfterPurge
                                 ELSE "purge_delete"]
    /\ UNCHANGED <<faults, status, objects>>
    /\ UNCHANGED delFrame

\* Variant of PurgeExcept that answers 500 instead of going on.
PurgeExcept_propagate(d) == [d EXCEPT !.pc = "done", !.statusCode = 500, !.purge_failed = TRUE]

\* `except Exception as chunk_err: print(...)`: the request goes on.
PurgeExcept(d) == [d EXCEPT !.pc = AfterPurge, !.purge_failed = TRUE]

\* The query or a batch write raises inside the inner try.
PurgeFault ==
    /\ del.pc \in {"purge_query", "purge_delete"}
    /\ faults > 0
    /\ faults' = faults - 1
    /\ del' = PurgeExcept([del EXCEPT !.before = IF del.pc = "purge_query" THEN chunks ELSE @])
    /\ UNCHANGED <<status, objects, chunks>>
    /\ UNCHANGED delFrame

\* doc_status_table.delete_item(Key={'user_id': user_id, 'doc_key': key})
StatusDelete ==
    /\ del.pc = "status_delete"
    /\ status' = {x \in status : StatusKey(x) # <<del.user_id, del.key>>}
    /\ del' = [del EXCEPT !.pc = "respond", !.status_attempted = TRUE]
    /\ UNCHANGED <<faults, objects, chunks>>
    /\ UNCHANGED delFrame

\* The status delete raises: `except Exception as status_err` prints.
StatusDeleteFault ==
    /\ del.pc = "status_delete"
    /\ faults > 0
    /\ faults' = faults - 1
    /\ del' = [del EXCEPT !.pc = "respond", !.status_attempted = TRUE, !.status_failed = TRUE]
    /\ UNCHANGED <<status, objects, chunks>>
    /\ UNCHANGED delFrame

\* return {'statusCode': 200, ... 'Deleted'}
DeleteRespond ==
    /\ del.pc = "respond"
    /\ del' = [del EXCEPT !.pc = "done", !.statusCode = 200]
    /\ UNCHANGED <<faults, status, objects, chunks>>
    /\ UNCHANGED delFrame

\* A DELETE /documents request of user u for a.md, a.md.MD or without a
\* filename. u/a.md and u/a.md.MD may each be stored and indexed with a
\* complete generation of chunks.
InitDelete ==
    /\ IdleQuota
    /\ IdleChunker
    /\ IdleRag
    /\ IdleCosine
    /\ IdleOcr
    /\ IdleReq
    /\ faults \in {0, MaxFaults}
    /\ status_table \in BOOLEAN
    /\ inv = [i \in Invs |-> NoInvocation]
    /\ log = [i \in Invs |-> <<>>]
    /\ \E oldA \in 0..MaxOld, oldB \in 0..1 :
          /\ chunks = Generation(KeyA, OldText(oldA)) \cup Generation(KeyB, OldText(oldB))
          /\ objects = [k \in Keys |->
                           IF k = KeyA /\ oldA > 0 THEN OldText(oldA)
                           ELSE IF k = KeyB /\ oldB > 0 THEN OldText(oldB)
                           ELSE NoObject]
          /\ status = IF status_table
                      THEN { StatusItem(k[1], "indexed", k[2], "") :
                               k \in {kk \in {<<KeyA, oldA>>, <<KeyB, oldB>>} : kk[2] > 0} }
                      ELSE {}
    /\ \E filename \in {FilenameOf(KeyA), FilenameOf(KeyB), <<>>} : \E table \in BOOLEAN :
          del = [pc |-> "start", user_id |-> UserOf(KeyA), filename |-> filename,
                 chunks_table |-> table, key |-> <<>>, s3_deleted |-> FALSE,
                 running |-> FALSE, chunk_items |-> <<>>,
                 before |-> {}, purge_failed |-> FALSE, status_attempted |-> FALSE,
                 status_failed |-> FALSE, statusCode |-> 0]

NextDelete ==
    \/ DeleteNoFilename
    \/ DeleteObject
    \/ DeleteObjectFault
    \/ PurgeQuery
    \/ PurgeDeleteItem
    \/ PurgeFault
    \/ StatusDelete
    \/ StatusDeleteFault
    \/ DeleteRespond

SpecDelete == InitDelete /\ [][NextDelete]_vars

\* u/a.md has been uploaded (over an earlier generation of at most one page
\* of chunks, or as a new document) and its ingestion run is about to start;
\* the user sends DELETE for a.md at any moment. No service fails and the
\* document is not uploaded again.
InitDeleteRace ==
    /\ IdleQuota
    /\ IdleChunker
    /\ IdleRag
    /\ IdleCosine
    /\ IdleOcr
    /\ IdleReq
    /\ faults = 0
    /\ status_table = TRUE
    /\ \E c \in Contents(1) :
          objects = [k \in Keys |-> IF k = KeyA THEN c ELSE NoObject]
    /\ \E old \in 0..PageLimit :
          /\ chunks = Generation(KeyA, OldText(old))
          /\ status = IF old > 0 THEN {StatusItem(KeyA, "indexed", old, "")} ELSE {}
    /\ inv = [i \in Invs |-> IF i = 1 THEN NewInvocation(<<KeyA>>) ELSE NoInvocation]
    /\ log = [i \in Invs |-> <<>>]
    /\ del = [pc |-> "start", user_id |-> UserOf(KeyA), filename |-> FilenameOf(KeyA),
              chunks_table |-> TRUE, key |-> <<>>, s3_deleted |-> FALSE,
              running |-> FALSE, chunk_items |-> <<>>,
              before |-> {}, purge_failed |-> FALSE, status_attempted |-> FALSE,
              status_failed |-> FALSE, statusCode |-> 0]

NextDeleteRace ==
    \E i \in Invs :
        \/ StatusProcessing(i)
        \/ StatusGuardError(i)
        \/ HeadObject(i)
        \/ ExtractText(i)
        \/ QueryExisting(i)
        \/ DeleteItem(i)
        \/ EmbedAndStore(i)
        \/ StatusIndexed(i)
        \/ StatusExcept(i)
        \/ Return(i)
        \/ DeleteObject
        \/ PurgeQuery
        \/ PurgeDeleteItem
        \/ StatusDelete
        \/ DeleteRespond

SpecDeleteRace == InitDeleteRace /\ [][NextDeleteRace]_vars

\* =========================================================================
\* Extraction: document_processor.extract_text and the Textract workflows
\* =========================================================================

ocrFrame == <<qvars, ivars, chunker, rag, cosine, del, req>>

KeyP == <<"u", "/", "a", ".", "p", "d", "f">>                \* u/a.pdf
KeyN == <<"u", "/", "b">>                                    \* u/b, no extension

\* Keys extract_text is called with.
ExtractKeys == {KeyA, KeyB, KeyP, KeyX, KeyN}

\* `for _ in range(15)`
PollAttempts == 15

\* `delay = 5`
InitialDelay == 5

\* the cap in `min(delay * 2, 30)`
MaxDelay == 30

\* Variant of Backoff without the cap.
Backoff_uncapped(delay) == delay * 2

\* delay = min(delay * 2, 30)
Backoff(delay) == IF delay * 2 < MaxDelay THEN delay * 2 ELSE MaxDelay

\* The values of JobStatus the service reports.
JobStatuses == {"IN_PROGRESS", "SUCCEEDED", "FAILED", "PARTIAL_SUCCESS"}

\* The blocks of result page i of the job: lines among blocks of other types.
PageBlocks(i) ==
    CASE i = 1 -> << [BlockType |-> "PAGE", Text |-> ""], [BlockType |-> "LINE", Text |-> "a"],
                     [BlockType |-> "WORD", Text |-> "a"], [BlockType |-> "LINE", Text |-> "b"] >>
      [] i = 2 -> << [BlockType |-> "PAGE", Text |-> ""] >>
      [] OTHER -> << [BlockType |-> "LINE", Text |-> "c"], [BlockType |-> "WORD", Text |-> "c"] >>

IsLine(block) == block.BlockType = "LINE"

\* [block["Text"] for block in blocks if block.get("BlockType") == "LINE"]
LinesOf(blocks) ==
    LET kept == SelectSeq(blocks, IsLine)
    IN  [j \in 1..Len(kept) |-> kept[j].Text]

\* "\n".join(lines)
RECURSIVE JoinLines(_)
JoinLines(lines) ==
    IF lines = <<>> THEN <<>>
    ELSE IF Len(lines) = 1 THEN <<lines[1]>>
    ELSE <<lines[1], "\n">> \o JoinLines(Tail(lines))

\* Variant of NextToken that never announces a further page.
NextToken_absent(page, npages) == 0

\* result.get("NextToken") of result page `page` of a job with npages pages;
\* 0 stands for an absent token.
NextToken(page, npages) == IF page < npages THEN page + 1 ELSE 0

\* The extensions of the three dispatch branches of extract_text.
TextExtensions == { <<"t", "x", "t">>, <<"c", "s", "v">>, <<"m", "d">> }
OcrExtensions == { <<"p", "d", "f">>, <<"p", "n", "g">>, <<"j", "p", "g">>,
                   <<"j", "p", "e", "g">>, <<"t", "i", "f", "f">>, <<"d", "o", "c", "x">> }

\* The branch extract_text takes for extension ext.
Route(ext) ==
    IF ext \in TextExtensions THEN "get_object"
    ELSE IF ext \in OcrExtensions THEN "sync"
    ELSE "fallback"

\* The decoded body of the stored object.
BodyText == <<"a", "b">>

\* ext = key.rsplit(".", 1)[-1].lower() if "." in key else "", then the dispatch.
ExtractDispatch ==
    /\ ocr.pc = "dispatch"
    /\ ocr' = [ocr EXCEPT !.ext = ExtOf(ocr.key), !.pc = Route(ExtOf(ocr.key))]
    /\ UNCHANGED faults
    /\ UNCHANGED ocrFrame

\* s3_client.get_object returns and the body is decoded, in the text branch
\* or in the fallback.
ReadObject ==
    /\ ocr.pc \in {"get_object", "fallback"}
    /\ ocr.stored
    /\ ocr' = [ocr EXCEPT !.reads = @ + 1, !.pc = "done", !.outcome = "text",
                          !.text = BodyText]
    /\ UNCHANGED faults
    /\ UNCHANGED ocrFrame

\* s3_client.get_object raises (no such key, or a service error): the text
\* branch lets the error through, the fallback turns it into ValueError.
ReadObjectFault ==
    /\ ocr.pc \in {"get_object", "fallback"}
    /\ IF ocr.stored THEN faults > 0 /\ faults' = faults - 1 ELSE UNCHANGED faults
    /\ ocr' = [ocr EXCEPT !.reads = @ + 1, !.pc = "done", !.faulted = TRUE,
                          !.outcome = IF ocr.pc = "fallback" THEN "ValueError"
                                      ELSE "ClientError"]
    /\ UNCHANGED ocrFrame

\* textract_client.detect_document_text returns the blocks of the document.
SyncDetect ==
    /\ ocr.pc = "sync"
    /\ ocr.npages = 1
    /\ ocr' = [ocr EXCEPT !.textract = @ + 1, !.pc = "done", !.outcome = "text",
                          !.text = JoinLines(LinesOf(PageBlocks(1)))]
    /\ UNCHANGED faults
    /\ UNCHANGED ocrFrame

\* detect_document_text raises UnsupportedDocumentException: the
\* asynchronous workflow takes over.
SyncUnsupported ==
    /\ ocr.pc = "sync"
    /\ ocr.npages > 1
    /\ ocr' = [ocr EXCEPT !.textract = @ + 1, !.pc = "start"]
    /\ UNCHANGED faults
    /\ UNCHANGED ocrFrame

\* detect_document_text raises another ClientError, which is raised again.
SyncFault ==
    /\ ocr.pc = "sync"
    /\ faults > 0
    /\ faults' = faults - 1
    /\ ocr' = [ocr EXCEPT !.textract = @ + 1, !.pc = "done", !.outcome = "ClientError",
                          !.faulted = TRUE]
    /\ UNCHANGED ocrFrame

\* start_document_text_detection returns the job id; delay = 5.
OcrStart ==
    /\ ocr.pc = "start"
    /\ ocr' = [ocr EXCEPT !.textract = @ + 1, !.async = TRUE, !.delay = InitialDelay,
                          !.pc = "loop"]
    /\ UNCHANGED faults
    /\ UNCHANGED ocrFrame

\* A call of the asynchronous workflow raises: nothing there catches it.
OcrFault ==
    /\ ocr.pc \in {"start", "poll", "pages"}
    /\ ocr.pc = "pages" => ocr.next_token # 0
    /\ faults > 0
    /\ faults' = faults - 1
    /\ ocr' = [ocr EXCEPT !.textract = @ + 1, !.async = TRUE, !.pc = "done",
                          !.polls = IF ocr.pc = "poll" THEN @ + 1 ELSE @,
                          !.outcome = "ClientError", !.faulted = TRUE]
    /\ UNCHANGED ocrFrame

\* The next turn of `for _ in range(15)`: time.sleep(delay).
OcrSleep ==
    /\ ocr.pc = "loop"
    /\ ocr.attempt < PollAttempts
    /\ ocr' = [ocr EXCEPT !.attempt = @ + 1, !.waits = Append(@, ocr.delay),
                          !.elapsed = @ + ocr.delay, !.pc = "poll"]
    /\ UNCHANGED faults
    /\ UNCHANGED ocrFrame

\* get_document_text_detection(JobId=job_id) reports job_status.
OcrPoll(job_status) ==
    /\ ocr.pc = "poll"
    /\ ocr' = [ocr EXCEPT
                 !.textract = @ + 1,
                 !.polls = @ + 1,
                 !.status = job_status,
                 !.polls_at_failed = IF job_status = "FAILED" THEN ocr.polls + 1 ELSE @,
                 !.pc = IF job_status = "SUCCEEDED" THEN "pages"
                        ELSE IF job_status = "FAILED" THEN "done" ELSE "loop",
                 !.outcome = IF job_status = "FAILED" THEN "RuntimeError" ELSE @,
                 !.lines = IF job_status = "SUCCEEDED" THEN LinesOf(PageBlocks(1)) ELSE @,
                 !.next_token = IF job_status = "SUCCEEDED"
                                THEN NextToken(1, ocr.npages) ELSE @,
                 !.delay = IF job_status \in {"SUCCEEDED", "FAILED"} THEN @ ELSE Backoff(@)]
    /\ UNCHANGED faults
    /\ UNCHANGED ocrFrame

\* `while next_token`: get_document_text_detection(JobId, NextToken).
OcrNextPage ==
    /\ ocr.pc = "pages"
    /\ ocr.next_token # 0
    /\ ocr' = [ocr EXCEPT !.textract = @ + 1,
                          !.lines = @ \o LinesOf(PageBlocks(ocr.next_token)),
                          !.next_token = NextToken(ocr.next_token, ocr.npages)]
    /\ UNCHANGED faults
    /\ UNCHANGED ocrFrame

\* return "\n".join(lines)
OcrReturn ==
    /\ ocr.pc = "pages"
    /\ ocr.next_token = 0
    /\ ocr' = [ocr EXCEPT !.pc = "done", !.outcome = "text", !.text = JoinLines(ocr.lines)]
    /\ UNCHANGED faults
    /\ UNCHANGED ocrFrame

\* The loop is exhausted: raise TimeoutError.
OcrTimeout ==
    /\ ocr.pc = "loop"
    /\ ocr.attempt = PollAttempts
    /\ ocr' = [ocr EXCEPT !.pc = "done", !.outcome = "TimeoutError"]
    /\ UNCHANGED faults
    /\ UNCHANGED ocrFrame

\* One call extract_text(bucket, key): the object may be stored or not, the
\* document has 1..MaxPages pages of results, one service call may fail.
InitExtract ==
    /\ IdleQuota
    /\ IdleIngestion
    /\ IdleChunker
    /\ IdleRag
    /\ IdleCosine
    /\ IdleDelete
    /\ IdleReq
    /\ faults \in {0, 1}
    /\ \E key \in ExtractKeys, stored \in BOOLEAN, npages \in 1..MaxPages :
          ocr = [pc |-> "dispatch", key |-> key, stored |-> stored, npages |-> npages,
                 ext |-> <<>>, async |-> FALSE, delay |-> 0, attempt |-> 0, polls |-> 0,
                 polls_at_failed |-> 0, waits |-> <<>>, elapsed |-> 0, status |-> "",
                 lines |-> <<>>, next_token |-> 0, reads |-> 0, textract |-> 0,
                 faulted |-> FALSE, outcome |-> "", text |-> <<>>]

NextExtract ==
    \/ ExtractDispatch
    \/ ReadObject
    \/ ReadObjectFault
    \/ SyncDetect
    \/ SyncUnsupported
    \/ SyncFault
    \/ OcrStart
    \/ OcrFault
    \/ OcrSleep
    \/ \E job_status \in JobStatuses : OcrPoll(job_status)
    \/ OcrNextPage
    \/ OcrReturn
    \/ OcrTimeout

SpecExtract == InitExtract /\ [][NextExtract]_vars

\* =========================================================================
\* Chat front: lambda_function.lambda_handler up to the body checks
\* =========================================================================

chatFrame == <<ivars, chunker, rag, cosine, del, ocr>>

\* The value of the 'cognito:groups' claim: missing, a list, a string, or a
\* value of another type.
GroupsAbsent == [kind |-> "absent", list |-> <<>>, str |-> ""]
GroupsList(v) == [kind |-> "list", list |-> v, str |-> ""]
GroupsStr(s) == [kind |-> "str", list |-> <<>>, str |-> s]
GroupsOther == [kind |-> "other", list |-> <<>>, str |-> ""]

GroupsClaims ==
    { GroupsAbsent, GroupsOther, GroupsList(<<>>), GroupsList(<<"Users">>),
      GroupsList(<<"Admins">>), GroupsList(<<"Users", "Admins">>),
      GroupsStr("Admins"), GroupsStr("Users") }

\* groups_claim = claims.get('cognito:groups', []); a list is taken as it
\* is, a string becomes a one-element list, anything else leaves [].
UserGroups(groups_claim) ==
    CASE groups_claim.kind = "list" -> groups_claim.list
      [] groups_claim.kind = "str" -> <<groups_claim.str>>
      [] OTHER -> <<>>

\* Variant of IsAdmin that recognises nobody.
IsAdmin_never(user_groups) == FALSE

\* is_admin = 'Admins' in user_groups
IsAdmin(user_groups) == \E j \in 1..Len(user_groups) : user_groups[j] = "Admins"

\* Where the claims of the event are found: no authorizer context, the v2.0
\* place (authorizer.jwt.claims), the v1.0 place (authorizer.claims), or an
\* authorizer context without claims.
Authorizers == {"absent", "jwt", "claims", "empty"}

\* The claims dict the handler ends up with; sub is the caller's user id.
ClaimsOf(event) ==
    IF event.authorizer \in {"jwt", "claims"}
    THEN [present |-> TRUE, sub |-> QUser, groups |-> event.groups]
    ELSE [present |-> FALSE, sub |-> "", groups |-> GroupsAbsent]

\* user_id = "anonymous" unless the claims are there.
UserIdOf(event) == IF ClaimsOf(event).present THEN ClaimsOf(event).sub ELSE "anonymous"

\* user_groups = [] unless the claims are there.
UserGroupsOf(event) ==
    IF ClaimsOf(event).present THEN UserGroups(ClaimsOf(event).groups) ELSE <<>>

\* Variant of AfterAuth that sends every authenticated chat request straight
\* to the body checks.
AfterAuth_noquota(event) ==
    IF event.path = "/documents" THEN "documents"
    ELSE IF UserIdOf(event) = "anonymous" THEN "401"
    ELSE "body"

\* The step that follows the authentication part for a request.
AfterAuth(event) ==
    IF event.path = "/documents" THEN "documents"
    ELSE IF UserIdOf(event) = "anonymous" THEN "401"
    ELSE IF UserIdOf(event) # "anonymous" /\ ~IsAdmin(UserGroupsOf(event)) THEN "check_quota"
    ELSE "body"

\* The handler reads the claims, computes is_admin, routes /documents to
\* handle_documents and answers 401 to an unauthenticated chat request.
ChatAuth(p) ==
    /\ req[p].pc = "start"
    /\ LET event == req[p].event
           next == AfterAuth(event)
       IN  req' = [req EXCEPT ![p].user_id = UserIdOf(event),
                              ![p].is_admin = IsAdmin(UserGroupsOf(event)),
                              ![p].pc = IF next \in {"documents", "401"} THEN "done" ELSE next,
                              ![p].routed = IF next = "documents" THEN "documents" ELSE "chat",
                              ![p].statusCode = IF next = "401" THEN 401 ELSE 0]
    /\ UNCHANGED <<qvars, faults>>
    /\ UNCHANGED chatFrame

\* allowed = check_and_update_quota(user_id): the steps of the quota
\* enforcer, taken by a request that stands at that call.
AtQuotaCall(p) == req[p].pc = "check_quota" /\ qret[p] = "none"

ChatQuotaFailOpen(p) == AtQuotaCall(p) /\ QuotaFailOpen(p)
ChatQuotaSend(p) == AtQuotaCall(p) /\ QuotaSend(p)
ChatQuotaUpdateOk(p) == AtQuotaCall(p) /\ QuotaUpdateOk(p)
ChatQuotaConditionFailed(p) == AtQuotaCall(p) /\ QuotaConditionFailed(p)
ChatQuotaStoreError(p) == AtQuotaCall(p) /\ QuotaStoreError(p)

\* check_and_update_quota has returned or raised: `if not allowed` answers
\* 429, an exception ends in the outer `except Exception` with 500.
ChatAfterQuota(p) ==
    /\ req[p].pc = "check_quota"
    /\ qret[p] # "none"
    /\ req' = [req EXCEPT ![p].quota_checked = TRUE,
                          ![p].pc = IF qret[p] = "true" THEN "body" ELSE "done",
                          ![p].statusCode = IF qret[p] = "false" THEN 429
                                            ELSE IF qret[p] = "raised" THEN 500 ELSE 0]
    /\ UNCHANGED <<qvars, faults>>
    /\ UNCHANGED chatFrame

\* The body checks: a missing body, a missing message and a message longer
\* than MAX_QUERY_LENGTH are answered with 400.
ChatBody(p) ==
    /\ req[p].pc = "body"
    /\ req' = [req EXCEPT ![p].pc = IF req[p].event.body = "ok" THEN "reply" ELSE "done",
                          ![p].statusCode = IF req[p].event.body = "ok" THEN 0 ELSE 400]
    /\ UNCHANGED <<qvars, faults>>
    /\ UNCHANGED chatFrame

\* Retrieval, prompt and invoke_model end with the reply.
ChatReply(p) ==
    /\ req[p].pc = "reply"
    /\ req' = [req EXCEPT ![p].pc = "done", ![p].statusCode = 200]
    /\ UNCHANGED <<qvars, faults>>
    /\ UNCHANGED chatFrame

\* invoke_model raises: the outer `except Exception` answers 500.
ChatReplyFault(p) ==
    /\ req[p].pc = "reply"
    /\ faults > 0
    /\ faults' = faults - 1
    /\ req' = [req EXCEPT ![p].pc = "done", ![p].statusCode = 500]
    /\ UNCHANGED qvars
    /\ UNCHANGED chatFrame

\* The requests the callers send.
ChatEvents ==
    [authorizer : Authorizers, groups : GroupsClaims, path : {"/chat", "/documents"},
     body : {"ok", "missing", "empty", "too_long"}]

\* Requests of ordinary traffic: an admin and a plain user asking a question.
PlainEvents ==
    { [authorizer |-> "jwt", groups |-> g, path |-> "/chat", body |-> "ok"] :
        g \in {GroupsList(<<"Admins">>), GroupsAbsent} }

NewRequest(event) ==
    [pc |-> "start", event |-> event, user_id |-> "anonymous", is_admin |-> FALSE,
     routed |-> "", quota_checked |-> FALSE, statusCode |-> 0]

\* One request per caller, all of user u, against a usage table that holds
\* no item or a counter the code can have written.
InitChat ==
    /\ usage_table \in BOOLEAN
    /\ \E c \in {0, 1, DAILY_MSG_LIMIT - 1, DAILY_MSG_LIMIT} :
          /\ usage = IF c = 0 \/ ~usage_table THEN {}
                     ELSE {[user_id |-> QUser, date |-> QToday, request_count |-> c]}
          /\ qstat = [calls |-> 0, done |-> 0, trues |-> 0, falses |-> 0, raised |-> 0,
                      count0 |-> IF usage = {} THEN 0 ELSE c,
                      race |-> FALSE,
                      last |-> [pre |-> 0, ret |-> "none"]]
    /\ qpc = [p \in Callers |-> "idle"]
    /\ qret = [p \in Callers |-> "none"]
    /\ faults \in {0, 1}
    /\ IdleIngestion
    /\ IdleChunker
    /\ IdleRag
    /\ IdleCosine
    /\ IdleDelete
    /\ IdleOcr
    /\ \E first \in ChatEvents :
          req \in [Callers -> {NewRequest(e) : e \in PlainEvents \cup {first}}]
    /\ \E p \in Callers : req[p].event \in PlainEvents

NextChat ==
    \E p \in Callers :
        \/ ChatAuth(p)
        \/ ChatQuotaFailOpen(p)
        \/ ChatQuotaSend(p)
        \/ ChatQuotaUpdateOk(p)
        \/ ChatQuotaConditionFailed(p)
        \/ ChatQuotaStoreError(p)
        \/ ChatAfterQuota(p)
        \/ ChatBody(p)
        \/ ChatReply(p)
        \/ ChatReplyFault(p)

SpecChat == InitChat /\ [][NextChat]_vars

\* =========================================================================
\* Upload request: documents._request_upload, and the client's PUT
\* =========================================================================

upFrame == <<qvars, status_table, status, chunks, inv, log, chunker, rag, cosine, del, ocr>>

MAX_FILES_PER_USER == 5

\* The names a.md .. f.md, and the keys they get under user u's prefix.
UploadNames == { <<c, ".", "m", "d">> : c \in {"a", "b", "c", "d", "e", "f"} }
UploadKeys == { ObjectKey(UserOf(KeyA), f) : f \in UploadNames }

\* The k-th of these names.
NthName(k) ==
    <<CASE k = 1 -> "a" [] k = 2 -> "b" [] k = 3 -> "c" [] k = 4 -> "d" [] k = 5 -> "e"
        [] OTHER -> "f", ".", "m", "d">>

\* '..' in filename
HasDotDot(filename) ==
    \E j \in 1..(Len(filename) - 1) : filename[j] = "." /\ filename[j + 1] = "."

\* `not filename or '/' in filename or '..' in filename`
InvalidFilename(filename) ==
    filename = <<>> \/ Contains(filename, "/") \/ HasDotDot(filename)

\* The 400 answers that come before any call to the object store.
UploadRejected(filename, file_size) ==
    IF InvalidFilename(filename) THEN TRUE
    ELSE IF ExtOf(filename) \notin ALLOWED_EXTENSIONS THEN TRUE
    ELSE SizeExceeds(file_size)

\* list_resp.get('KeyCount', 0) for Prefix = f"{user_id}/"
KeyCount(user_id) ==
    Cardinality({k \in DOMAIN objects :
                    objects[k] # NoObject /\ BeginsWith(k, user_id \o <<"/">>)})

\* current_count >= MAX_FILES_PER_USER
AtFileLimit(current_count) == current_count >= MAX_FILES_PER_USER

\* The checks of the request body.
UploadValidate(p) ==
    /\ req[p].pc = "start"
    /\ req' = [req EXCEPT ![p].pc = IF UploadRejected(req[p].filename, req[p].file_size)
                                    THEN "done" ELSE "list",
                          ![p].statusCode = IF UploadRejected(req[p].filename, req[p].file_size)
                                            THEN 400 ELSE 0]
    /\ UNCHANGED <<faults, objects>>
    /\ UNCHANGED upFrame

\* list_objects_v2 returns; at the limit the answer is 400, below it the
\* presigned URL for the key is made (a local computation) and returned.
UploadList(p) ==
    /\ req[p].pc = "list"
    /\ LET current_count == KeyCount(req[p].user_id)
       IN  req' = [req EXCEPT ![p].pc = "done",
                              ![p].current_count = current_count,
                              ![p].statusCode = IF AtFileLimit(current_count) THEN 400 ELSE 200,
                              ![p].key = IF AtFileLimit(current_count) THEN <<>>
                                         ELSE ObjectKey(req[p].user_id, req[p].filename)]
    /\ UNCHANGED <<faults, objects>>
    /\ UNCHANGED upFrame

\* list_objects_v2 raises: `except Exception` answers 500.
UploadListFault(p) ==
    /\ req[p].pc = "list"
    /\ faults > 0
    /\ faults' = faults - 1
    /\ req' = [req EXCEPT ![p].pc = "done", ![p].statusCode = 500]
    /\ UNCHANGED objects
    /\ UNCHANGED upFrame

\* The client PUTs the file to the presigned URL it received.
ClientPut(p) ==
    /\ req[p].pc = "done"
    /\ req[p].statusCode = 200
    /\ ~req[p].uploaded
    /\ objects' = [objects EXCEPT ![req[p].key] = [size |-> req[p].file_size, gen |-> p, n |-> 1]]
    /\ req' = [req EXCEPT ![p].uploaded = TRUE]
    /\ UNCHANGED faults
    /\ UNCHANGED upFrame

\* What the callers ask to upload.
UploadRequests ==
    { [filename |-> f, file_size |-> z] :
        f \in UploadNames \cup { <<>>, <<"a", "/", "b", ".", "m", "d">>,
                                 <<".", ".", "m", "d">>, <<"b", ".", "e", "x", "e">> },
        z \in {MaxBytes, MaxBytes + 1} }

\* Each caller sends one upload request as user u; the user's prefix holds
\* 0..MAX_FILES_PER_USER objects, all of which came through this endpoint.
InitUpload ==
    /\ IdleQuota
    /\ IdleChunker
    /\ IdleRag
    /\ IdleCosine
    /\ IdleDelete
    /\ IdleOcr
    /\ faults \in {0, 1}
    /\ status_table = FALSE
    /\ status = {}
    /\ chunks = {}
    /\ inv = [i \in Invs |-> NoInvocation]
    /\ log = [i \in Invs |-> <<>>]
    /\ \E stored \in 0..MAX_FILES_PER_USER :
          objects = [k \in UploadKeys |->
                        IF \E j \in 1..stored : k = ObjectKey(UserOf(KeyA), NthName(j))
                        THEN [size |-> MaxBytes, gen |-> 0, n |-> 1] ELSE NoObject]
    /\ \E asked \in [Callers -> UploadRequests] :
          req = [p \in Callers |->
                    [pc |-> "start", user_id |-> UserOf(KeyA), filename |-> asked[p].filename,
                     file_size |-> asked[p].file_size, current_count |-> 0, key |-> <<>>,
                     uploaded |-> FALSE, statusCode |-> 0]]

NextUpload ==
    \E p \in Callers :
        \/ UploadValidate(p)
        \/ UploadList(p)
        \/ UploadListFault(p)
        \/ ClientPut(p)

SpecUpload == InitUpload /\ [][NextUpload]_vars

\* =========================================================================
\* Properties
\* =========================================================================

\* The chunks stored for a document.
DocChunks(key) == {x \in chunks : x.doc_key = key}

\* The history entries of the runs that have ended.
Ended(i) == {j \in 1..Len(log[i]) : log[i][j].result # "none"}

\* No run of invocation i is in progress.
Quiet(i) == inv[i].pc \in {"next", "returned", "raised"}

\* The record's extension, size and text pass all guards.
GuardsPass(key) ==
    /\ WellFormed(key)
    /\ ExtOf(FilenameOf(key)) \in ALLOWED_EXTENSIONS
    /\ objects[key] # NoObject
    /\ objects[key].size <= MaxBytes
    /\ objects[key].n >= 1

\* The chunk sets that are one complete generation of a document.
CompleteGenerations(key) ==
    { Generation(key, [size |-> MaxBytes, gen |-> g, n |-> n]) :
        g \in 0..2, n \in 1..(MaxOld + MaxChunks) }

\* C1: in every interleaving of concurrent check_and_update_quota calls of one
\* user on one day the stored request_count never exceeds DAILY_MSG_LIMIT, and
\* the number of calls that returned True equals the counter's growth (the
\* counter itself when the day started without an item).
C1_QuotaNeverExceedsLimit ==
    /\ CountOf(QUser, QToday) <= DAILY_MSG_LIMIT
    /\ usage_table => qstat.trues = CountOf(QUser, QToday) - qstat.count0
    /\ (usage_table /\ qstat.count0 = 0) => qstat.trues = CountOf(QUser, QToday)

\* Two calls were in flight together for the last free slot; the counter stands
\* at the limit, one of them got True and the other False.
C1_Witness ==
    /\ usage_table /\ qstat.race
    /\ CountOf(QUser, QToday) = DAILY_MSG_LIMIT
    /\ qstat.count0 = 0 /\ qstat.trues = DAILY_MSG_LIMIT
    /\ \E p, q \in Callers : qret[p] = "true" /\ qret[q] = "false"

\* C2: check_and_update_quota matches the reference: without a usage table it
\* returns True and writes nothing; with counter c < L it returns True and the
\* counter becomes c + 1; with c >= L it returns False and the counter keeps its
\* value. From an empty day the 20th call returns True and the 21st False,
\* leaving the counter at 20.
C2_QuotaReference ==
    /\ ~usage_table => (usage = {} /\ qstat.falses = 0 /\ qstat.raised = 0)
    /\ (usage_table /\ qstat.last.ret = "true") =>
          (qstat.last.pre < DAILY_MSG_LIMIT /\ CountOf(QUser, QToday) = qstat.last.pre + 1)
    /\ (usage_table /\ qstat.last.ret = "false") =>
          (qstat.last.pre >= DAILY_MSG_LIMIT /\ CountOf(QUser, QToday) = qstat.last.pre)
    /\ (usage_table /\ qstat.count0 = 0 /\ qstat.raised = 0 /\ qstat.done = 20) =>
          (qstat.last.ret = "true" /\ CountOf(QUser, QToday) = 20)
    /\ (usage_table /\ qstat.count0 = 0 /\ qstat.raised = 0 /\ qstat.done = 21) =>
          (qstat.last.ret = "false" /\ CountOf(QUser, QToday) = 20)

\* The 21st call of an empty day has returned False with the counter at 20.
C2_Witness ==
    /\ usage_table /\ qstat.count0 = 0 /\ qstat.raised = 0
    /\ qstat.done = 21 /\ qstat.last.ret = "false" /\ qstat.last.pre = 20
    /\ CountOf(QUser, QToday) = 20

\* C3: after a re-ingestion run for a document key has finished with status
\* indexed, the chunks stored under that key are exactly the chunks that run
\* produced, whatever the size of the previous generation.
C3_ReingestLeavesNewSet ==
    \A i \in Invs :
        (Quiet(i) /\ log[i] # <<>> /\ LastLog(i).result = "ok") =>
            DocChunks(LastLog(i).key) =
                Generation(LastLog(i).key,
                           [size |-> MaxBytes, gen |-> LastLog(i).gen, n |-> LastLog(i).n])

\* C4: whenever no ingestion run is in progress, the chunks stored for a
\* document are none at all or exactly the complete sequence 0..n-1 of one run,
\* also after a run that failed part-way through the embed-and-store loop.
C4_FullyPresentOrAbsent ==
    (\A i \in Invs : Quiet(i)) =>
        \A key \in Keys :
            DocChunks(key) = {} \/ DocChunks(key) \in CompleteGenerations(key)

\* C5: within one run the status is written as indexed only after every chunk
\* of the run has been put, and the chunk_count it carries is the number of
\* chunks the run produced and stored; no run writes indexed before or during
\* the insert loop.
C5_IndexedAfterAllChunks ==
    \A i \in Invs :
        /\ \A j \in 1..Len(log[i]) :
              LET e == log[i][j]
              IN  /\ e.indexed.count # -1 =>
                        /\ e.n >= 1
                        /\ e.indexed.count = e.n
                        /\ e.indexed.puts = e.n
                        /\ e.puts = e.n
                  /\ e.result = "ok" => e.indexed.count = e.n
        /\ ~Quiet(i) => LastLog(i).indexed.count = -1
        /\ (status_table /\ inv[i].pc = "next" /\ log[i] # <<>> /\ LastLog(i).result = "ok") =>
              StatusItem(LastLog(i).key, "indexed", LastLog(i).n, "") \in status

\* A run of several chunks has ended with the indexed status written.
C5_Witness ==
    \E i \in Invs :
        /\ inv[i].pc = "next" /\ log[i] # <<>>
        /\ status_table
        /\ LastLog(i).result = "ok" /\ LastLog(i).n = MaxChunks
        /\ LastLog(i).indexed.puts = MaxChunks
        /\ StatusItem(LastLog(i).key, "indexed", MaxChunks, "") \in status

\* Well-formed records of a batch.
WellFormedCount(batch) == Cardinality({j \in 1..Len(batch) : WellFormed(batch[j])})

\* C6: no failure while processing one record of a batch (a failing status
\* write inside the error handler included) prevents the remaining records of
\* the batch from being processed: when the invocation has ended, every
\* well-formed record of its batch has been run, and a handler that returned
\* holds one result entry for each of them.
C6_BatchNeverAborted ==
    \A i \in Invs :
        inv[i].pc \in {"returned", "raised"} =>
            /\ Len(log[i]) = WellFormedCount(inv[i].batch)
            /\ inv[i].pc = "returned" => Len(inv[i].results) = WellFormedCount(inv[i].batch)

\* C7: a failing status write never changes what ingestion does to the chunk
\* store: a document whose guards, extraction, embedding and chunk writes all
\* succeed ends with all its chunks stored and a result of ok.
C7_StatusFailureSwallowed ==
    \A i \in Invs : \A j \in Ended(i) :
        LET e == log[i][j]
        IN  (GuardsPass(e.key) /\ e.faults \subseteq {"status"}) =>
                (e.result = "ok" /\ e.puts = objects[e.key].n)

\* C8: an embedding failure affects its chunk only: the run still stores all
\* chunks and ends with status indexed and the full chunk_count, never with
\* status error.
C8_EmbeddingFailureDegrades ==
    \A i \in Invs : \A j \in Ended(i) :
        LET e == log[i][j]
        IN  (GuardsPass(e.key) /\ e.faults = {"embedding"}) =>
                (e.result = "ok" /\ e.puts = e.n /\ e.indexed.count = e.n)

\* C9: a run for document key D never deletes or overwrites a chunk that
\* belongs to a different document key D', also when D is a prefix of D'.
C9_OtherDocumentsUntouched ==
    [][\A x \in chunks : x \notin chunks' =>
          \E i \in Invs : ~Quiet(i) /\ CurKey(i) = x.doc_key]_vars

\* The text a single-record invocation read.
TextOfRun(i) == [size |-> MaxBytes, gen |-> log[i][1].gen, n |-> log[i][1].n]

\* C10: when two ingestion runs for the same document key overlap and both
\* finish, the chunks finally stored under the key are exactly the chunk set
\* of one of the two runs, never a mixture, and the final indexed chunk_count
\* equals the number of chunks stored.
C10_LastWriterWins ==
    (\A i \in Invs : /\ inv[i].pc = "returned"
                     /\ Len(log[i]) = 1
                     /\ log[i][1].key = KeyA
                     /\ log[i][1].result = "ok") =>
        /\ \E i \in Invs : DocChunks(KeyA) = Generation(KeyA, TextOfRun(i))
        /\ \E it \in status :
              /\ it.doc_key = KeyA
              /\ it.status = "indexed"
              /\ it.chunk_count = Cardinality(DocChunks(KeyA))

\* C11: in every execution, overlapping runs for the same key included, the
\* status of a document that is indexed or error changes only to processing.
C11_TerminalOnlyToProcessing ==
    [][\A a \in status : \A b \in status' :
          (StatusKey(a) = StatusKey(b) /\ a.status \in {"indexed", "error"}) =>
              b.status \in {a.status, "processing"}]_vars

\* A guard of the ingestion handler rejects the record with this key.
GuardRejects(key) ==
    IF ~WellFormed(key) THEN TRUE
    ELSE IF ExtOf(FilenameOf(key)) \notin ALLOWED_EXTENSIONS THEN TRUE
    ELSE IF objects[key] = NoObject THEN FALSE
    ELSE objects[key].size > MaxBytes \/ objects[key].n = 0

\* C12: when no service fails, every record a guard rejects (a key that does
\* not split into user and filename included) has an error result with a
\* non-empty message and, with the status table configured, an error status.
C12_GuardRejectionRecorded ==
    \A i \in Invs :
        (inv[i].pc = "returned" /\ faults = MaxFaults) =>
            \A j \in 1..Len(inv[i].batch) :
                GuardRejects(inv[i].batch[j]) =>
                    /\ \E r \in 1..Len(inv[i].results) :
                          /\ inv[i].results[r].key = inv[i].batch[j]
                          /\ inv[i].results[r].status = "error"
                          /\ inv[i].results[r].error # ""
                    /\ status_table =>
                          \E it \in status :
                              /\ it.doc_key = inv[i].batch[j]
                              /\ it.status = "error"
                              /\ it.error # ""

\* The run of history entry e met no failing service.
CleanRun(e) == e.faults = {}

\* C13: the extension guard runs before head_object and the size guard before
\* extract_text. A record with a disallowed extension makes neither call and
\* writes no chunk; an oversize record makes no extract_text call and writes no
\* chunk; both end as error (with the guard's message when no service failed).
\* A size equal to the cap passes the size guard: extract_text is called.
C13_GuardsBeforeExtraction ==
    \A i \in Invs : \A j \in 1..Len(log[i]) :
        LET e == log[i][j]
            ext_ok == ExtOf(FilenameOf(e.key)) \in ALLOWED_EXTENSIONS
            size == objects[e.key].size
            msg == inv[i].results[j].error
        IN  /\ ~ext_ok =>
                  /\ e.calls = {} /\ e.puts = 0 /\ e.result \notin {"ok"}
                  /\ (e.result = "error" /\ CleanRun(e)) =>
                        /\ msg = "Unsupported file type"
                        /\ status_table =>
                              StatusItem(e.key, "error", 0, "Unsupported file type") \in status
            /\ (ext_ok /\ size > MaxBytes) =>
                  /\ "extract_text" \notin e.calls /\ e.puts = 0 /\ e.result \notin {"ok"}
                  /\ (e.result = "error" /\ CleanRun(e)) =>
                        /\ e.calls = {"head_object"}
                        /\ msg = "File exceeds limit"
                        /\ status_table =>
                              StatusItem(e.key, "error", 0, "File exceeds limit") \in status
            /\ (ext_ok /\ size = MaxBytes /\ CleanRun(e) /\ e.result # "none") =>
                  e.calls = {"head_object", "extract_text"}

\* The run for u/b.exe has ended, rejected by the extension guard, with no
\* service failing.
C13_Witness ==
    /\ inv[1].pc = "returned"
    /\ Len(log[1]) = 1
    /\ log[1][1].key = KeyX
    /\ log[1][1].result = "error"
    /\ CleanRun(log[1][1])
    /\ inv[1].results[1].error = "Unsupported file type"

\* C14: on every iteration of chunk_text's loop the window start strictly
\* increases, for every text and every 0 <= overlap < chunk_size.
C14_StartStrictlyIncreases ==
    [][chunker'.iter > chunker.iter => chunker'.start > chunker.start]_vars

\* C15: for a text shorter than chunk_size (and not blank) chunk_text returns
\* exactly one chunk, with index 0, equal to the trimmed input.
C15_ShortTextOneChunk ==
    (/\ chunker.pc = "done"
     /\ Len(chunker.raw) < chunker.chunk_size
     /\ Strip(chunker.raw) # <<>>) =>
        /\ Len(chunker.chunks) = 1
        /\ chunker.chunks[1].idx = 0
        /\ chunker.chunks[1].text = Strip(chunker.raw)

\* C16 as stated: when chunk_text returns, every non-whitespace character of
\* the normalised text lies in the range of some chunk, and no chunk's range
\* starts after the end of the range of the chunk before it.
C16_ChunksCoverText ==
    chunker.pc = "done" =>
        /\ \A q \in 1..Len(chunker.text) :
              ~IsSpace(chunker.text[q]) =>
                  \E j \in 1..Len(chunker.chunks) :
                      chunker.chunks[j].lo < q /\ q <= chunker.chunks[j].hi
        /\ \A j \in 1..(Len(chunker.chunks) - 1) :
              chunker.chunks[j + 1].lo <= chunker.chunks[j].hi

\* C16, for the characters that carry content: when chunk_text returns, every
\* non-whitespace character of the normalised text lies in the range of some
\* chunk, the ranges start in non-decreasing order, and what lies between the
\* end of a chunk's range and the start of the next one's is whitespace only
\* (a window that holds only whitespace yields no chunk).
C16_ChunksCoverNonWhitespace ==
    chunker.pc = "done" =>
        /\ \A q \in 1..Len(chunker.text) :
              ~IsSpace(chunker.text[q]) =>
                  \E j \in 1..Len(chunker.chunks) :
                      chunker.chunks[j].lo < q /\ q <= chunker.chunks[j].hi
        /\ \A j \in 1..(Len(chunker.chunks) - 1) :
              /\ chunker.chunks[j].lo <= chunker.chunks[j + 1].lo
              /\ \A q \in (chunker.chunks[j].hi + 1)..chunker.chunks[j + 1].lo :
                    IsSpace(chunker.text[q])

\* chunk_text has returned three chunks of a text with overlap >= 1, and a
\* window of whitespace between two of them yielded no chunk.
C16_Witness ==
    /\ chunker.pc = "done"
    /\ chunker.overlap >= 1
    /\ Len(chunker.chunks) = 3
    /\ \E j \in 1..2 : chunker.chunks[j + 1].lo > chunker.chunks[j].hi

\* The chunks retrieve_context read, and the position of a chunk among them.
ReadPos(chunk_id) == CHOOSE j \in 1..Len(rag.chunks) : rag.chunks[j].chunk_id = chunk_id

\* The chunk's embedding decodes to a vector of the query's dimension.
UsableEmbedding(item) ==
    /\ item.embedding.json = "list"
    /\ Len(item.embedding.value) = Len(rag.query_embedding)

\* The cosine of the chunk's vector and the query vector is at least 0.30.
AtLeastThreshold(item) ==
    LET a == rag.query_embedding
        b == item.embedding.value
    IN  /\ Dot(a, a) # 0 /\ Dot(b, b) # 0
        /\ Dot(a, b) > 0
        /\ 100 * Dot(a, b) * Dot(a, b) >= 9 * Dot(a, a) * Dot(b, b)

\* The chunks read that may be returned.
Eligible == {j \in 1..Len(rag.chunks) :
                UsableEmbedding(rag.chunks[j]) /\ AtLeastThreshold(rag.chunks[j])}

\* C17: the list retrieve_context returns after scoring holds only chunks with
\* a usable embedding and a score of at least the threshold, is ordered by
\* non-increasing score with equal scores in the order read, has at most top_k
\* entries (all eligible chunks when there are fewer), and omits no chunk that
\* scores strictly higher than a returned one.
C17_RankedAboveThreshold ==
    rag.scanned =>
        LET R == rag.result
            ScoreOf(j) == CosineSimilarity(rag.query_embedding, StoredEmb(rag.chunks[j]))
        IN  /\ \A r \in 1..Len(R) :
                  \E j \in Eligible : /\ rag.chunks[j].chunk_id = R[r].chunk_id
                                      /\ R[r].score = ScoreOf(j)
            /\ \A r, t \in 1..Len(R) :
                  r < t => /\ ~ScoreLess(R[r].score, R[t].score)
                           /\ ~ScoreLess(R[t].score, R[r].score) =>
                                 ReadPos(R[r].chunk_id) < ReadPos(R[t].chunk_id)
            /\ Len(R) <= rag.top_k
            /\ Len(R) < rag.top_k => Len(R) = Cardinality(Eligible)
            /\ \A j \in Eligible : \A r \in 1..Len(R) :
                  ScoreLess(R[r].score, ScoreOf(j)) =>
                      \E t \in 1..Len(R) : R[t].chunk_id = rag.chunks[j].chunk_id

\* retrieve_context has returned two chunks of equal score and left out a
\* third eligible one.
C17_Witness ==
    /\ rag.scanned
    /\ Len(rag.result) = 2
    /\ rag.result[1].score = rag.result[2].score
    /\ Cardinality(Eligible) > 2

\* C18: when _embed_text yields no vector, retrieve_context returns [] without
\* a chunk-store read and without raising, and the chat request goes on to the
\* inference call with the user message as it came.
C18_NoVectorNoContext ==
    rag.embed # "ok" =>
        /\ rag.reads = 0
        /\ ~rag.raised
        /\ rag.result = <<>>
        /\ rag.pc \in {"embedded", "prompt", "invoke", "replied"}
        /\ rag.pc \in {"invoke", "replied"} => rag.prompt = Prompt(FALSE, <<>>, rag.user_message)
        /\ rag.pc = "replied" => rag.sent = Prompt(FALSE, <<>>, rag.user_message)

\* The embedding call raised and the request has reached the inference call.
C18_Witness ==
    /\ rag.embed = "raised"
    /\ rag.pc = "replied"
    /\ rag.sent = Prompt(FALSE, <<>>, rag.user_message)

\* Every component of v is 0 (the empty list included).
IsZeroVector(v) == \A j \in 1..Len(v) : v[j] = 0

\* C19: _cosine_similarity returns exactly 0, raising nothing, when an
\* argument is the zero vector or empty, or when the lengths differ.
C19_CosineDegenerateIsZero ==
    (/\ cosine.pc = "done"
     /\ \/ IsZeroVector(cosine.a)
        \/ IsZeroVector(cosine.b)
        \/ Len(cosine.a) # Len(cosine.b)) =>
        cosine.result = Zero

\* _cosine_similarity has returned for a non-zero a and a zero b of a's length.
C19_Witness ==
    /\ cosine.pc = "done"
    /\ cosine.a = <<1, 2>>
    /\ cosine.b = <<0, 0>>
    /\ cosine.result = Zero

\* C20: the chunks retrieve_context scores are exactly the chunks stored under
\* the user's partition, each once, however many pages the store returns;
\* no chunk of another partition is read or returned.
C20_ScansWholePartitionOnly ==
    LET mine == {x \in chunks : x.user_id = rag.user_id}
        read == {rag.chunks[j] : j \in 1..Len(rag.chunks)}
    IN  /\ read \subseteq mine
        /\ Cardinality(read) = Len(rag.chunks)
        /\ rag.scanned => read = mine
        /\ \A r \in 1..Len(rag.result) :
              \E x \in mine : x.chunk_id = rag.result[r].chunk_id

\* The scan took two pages and all three chunks of the user were scored, with
\* another user's chunk in the store.
C20_Witness ==
    /\ rag.scanned
    /\ rag.reads >= 2
    /\ Len(rag.chunks) >= 3
    /\ \E x \in chunks : x.user_id # rag.user_id

\* C21: build_rag_prompt gives the user message back without a CONTEXT block
\* exactly when the fragment list is empty; the request of a user with no
\* stored chunk sends the bare message to the inference call and its reply has
\* no sources.
C21_BarePromptIffNoFragments ==
    /\ rag.pc \in {"invoke", "replied"} =>
          /\ rag.result = <<>> <=> ~rag.prompt.framed
          /\ rag.result = <<>> <=> rag.prompt = Prompt(FALSE, <<>>, rag.user_message)
    /\ (rag.pc = "replied" /\ \A x \in chunks : x.user_id # rag.user_id) =>
          /\ rag.sent = Prompt(FALSE, <<>>, rag.user_message)
          /\ ~rag.reply.has_sources

\* A user without stored chunks, whose query was embedded and whose partition
\* was read, has been answered.
C21_Witness ==
    /\ rag.pc = "replied"
    /\ rag.scanned
    /\ \A x \in chunks : x.user_id # rag.user_id
    /\ ~rag.reply.has_sources

\* C22: once a delete request has answered 200 (both tables configured, no
\* call having failed), no chunk whose chunk_id starts with the document's key
\* is left in the user's partition, and the status record and the object are
\* gone, however many chunks were stored.
C22_DeleteRemovesEverything ==
    (/\ del.pc = "done" /\ del.statusCode = 200
     /\ del.chunks_table /\ status_table
     /\ ~del.purge_failed /\ ~del.status_failed) =>
        /\ \A x \in chunks : ~(x.user_id = del.user_id /\ BeginsWith(x.chunk_id, del.key))
        /\ \A x \in status : StatusKey(x) # <<del.user_id, del.key>>
        /\ objects[del.key] = NoObject

RECURSIVE AllLines(_)
AllLines(n) == IF n = 0 THEN <<>> ELSE AllLines(n - 1) \o LinesOf(PageBlocks(n))

RECURSIVE Pow2(_)
Pow2(n) == IF n = 0 THEN 1 ELSE 2 * Pow2(n - 1)

\* The parts of C24 that do not depend on the number of outcomes: a poll
\* reporting SUCCEEDED gives the lines of all pages in page order, a poll
\* reporting FAILED raises at once, fifteen polls without SUCCEEDED or FAILED
\* raise the timeout, and there are never more than fifteen status polls.
OcrOutcomeRules ==
    ocr.pc # "idle" =>
       /\ ocr.polls <= PollAttempts
       /\ ocr.status = "FAILED" =>
             /\ ocr.pc = "done"
             /\ ocr.outcome = "RuntimeError"
             /\ ocr.polls = ocr.polls_at_failed
       /\ (ocr.async /\ ocr.pc = "done" /\ ocr.outcome = "text") =>
             /\ ocr.status = "SUCCEEDED"
             /\ ocr.text = JoinLines(AllLines(ocr.npages))
       /\ (ocr.pc = "done" /\ ocr.status = "SUCCEEDED" /\ ~ocr.faulted) => ocr.outcome = "text"
       /\ (ocr.pc = "done" /\ ocr.outcome = "TimeoutError") =>
             /\ ocr.polls = PollAttempts
             /\ ocr.status \notin {"SUCCEEDED", "FAILED"}
       /\ (ocr.pc = "done" /\ ocr.polls = PollAttempts /\ ~ocr.faulted
           /\ ocr.status \notin {"SUCCEEDED", "FAILED"}) => ocr.outcome = "TimeoutError"

\* C24 as stated: the asynchronous OCR workflow ends in exactly one of three
\* ways (the text of all result pages after SUCCEEDED, an extraction failure
\* after FAILED, a timeout after 15 polls), never polls more than 15 times and
\* never returns text after FAILED.
C24_ExactlyThreeOutcomes ==
    /\ OcrOutcomeRules
    /\ (ocr.pc = "done" /\ ocr.async) => ocr.outcome \in {"text", "RuntimeError", "TimeoutError"}

\* C24, amended: the three outcomes are the outcomes of the runs in which
\* every service call returns; a call that raises (the start of the job, a
\* status poll, the fetch of a further result page) ends the workflow with
\* that call's own error.
C24_OutcomesOfOcr ==
    /\ OcrOutcomeRules
    /\ (ocr.pc = "done" /\ ocr.async) =>
          /\ ocr.outcome \in {"text", "RuntimeError", "TimeoutError", "ClientError"}
          /\ ocr.outcome = "ClientError" <=> ocr.faulted

C24_Witness ==
    /\ ocr.pc = "done"
    /\ ocr.async
    /\ ocr.outcome = "text"
    /\ ocr.npages = MaxPages
    /\ ocr.polls > 1
    /\ ocr.text = JoinLines(AllLines(MaxPages))

\* C25: extract_text fails with an unsupported-type error, without reading
\* the object and without calling OCR, for every key whose extension is not
\* in the allow-list, keys without an extension included.
C25_UnsupportedFailsUnread ==
    (ocr.pc = "done" /\ ExtOf(ocr.key) \notin ALLOWED_EXTENSIONS) =>
        /\ ocr.outcome = "ValueError"
        /\ ocr.reads = 0
        /\ ocr.textract = 0

Min2(a, b) == IF a < b THEN a ELSE b

\* C30: the wait before the k-th status poll is min(5 * 2^(k-1), 30); a wait
\* precedes each poll and no wait exceeds 30.
C30_BackoffSchedule ==
    ocr.pc # "idle" =>
       /\ \A k \in 1..Len(ocr.waits) :
             /\ ocr.waits[k] = Min2(5 * Pow2(k - 1), 30)
             /\ ocr.waits[k] <= 30
       /\ Len(ocr.waits) <= PollAttempts
       /\ IF ocr.pc = "poll" THEN Len(ocr.waits) = ocr.polls + 1
                             ELSE Len(ocr.waits) = ocr.polls

C30_Witness ==
    /\ ocr.pc = "done"
    /\ ocr.outcome = "TimeoutError"
    /\ Len(ocr.waits) = 15
    /\ ocr.waits[15] = 30
    /\ ocr.waits[3] = 20

\* The cut the stated preference order asks for in the window [start, end):
\* the last ". " if it is acceptable, else the last ".\n" if it is
\* acceptable, else the last "\n\n" if it is acceptable; -1 when none is.
PreferredBoundary(text, start, end, overlap) ==
    LET p1 == RFind(text, <<".", " ">>, start, end)
        p2 == RFind(text, <<".", "\n">>, start, end)
        p3 == RFind(text, <<"\n", "\n">>, start, end)
    IN  IF p1 # -1 /\ p1 > start + overlap THEN p1
        ELSE IF p2 # -1 /\ p2 > start + overlap THEN p2
        ELSE IF p3 # -1 /\ p3 > start + overlap THEN p3
        ELSE -1

\* The window [chunker.start, chunker.start + chunk_size) stops short of the
\* end of the text and holds an acceptable break candidate.
HasAcceptableBreak ==
    /\ chunker.pc = "loop"
    /\ chunker.start >= 0
    /\ chunker.start + chunker.chunk_size < Len(chunker.text)
    /\ PreferredBoundary(chunker.text, chunker.start, chunker.start + chunker.chunk_size,
                         chunker.overlap) # -1

\* C28: when a window holds several break candidates, chunk_text cuts at the
\* acceptable candidate of highest preference (period-space, then
\* period-newline, then double newline), and the cut leaves at least overlap
\* characters of chunk body.
C28_BreakPreference ==
    [][(HasAcceptableBreak /\ chunker'.iter > chunker.iter) =>
          LET b == PreferredBoundary(chunker.text, chunker.start,
                                     chunker.start + chunker.chunk_size, chunker.overlap)
          IN  /\ chunker'.start = NextStart(b + 1, chunker.overlap)
              /\ (b + 1) - chunker.start >= chunker.overlap]_vars

\* The second half of C28 alone: a cut at a break candidate leaves more than
\* overlap characters between the window start and the cut.
BreakLeavesOverlap ==
    [][(HasAcceptableBreak /\ chunker'.iter > chunker.iter) =>
          (chunker'.start + chunker.overlap) - chunker.start > chunker.overlap]_vars

\* C29: the chunks chunk_text has collected carry the indices 0, 1, ..., n-1
\* in order, each chunk is non-empty, has no leading or trailing whitespace
\* and is at most chunk_size characters long; blank input yields no chunk.
C29_ChunkListWellFormed ==
    chunker.pc \in {"loop", "done"} =>
       /\ \A j \in 1..Len(chunker.chunks) :
             LET c == chunker.chunks[j]
             IN  /\ c.idx = j - 1
                 /\ c.text # <<>>
                 /\ ~IsSpace(c.text[1])
                 /\ ~IsSpace(c.text[Len(c.text)])
                 /\ Len(c.text) <= chunker.chunk_size
       /\ Strip(chunker.raw) = <<>> => chunker.chunks = <<>>

C29_Witness ==
    /\ chunker.pc = "done"
    /\ Len(chunker.chunks) = 3
    /\ chunker.chunks[3].idx = 2
    /\ Len(chunker.chunks[1].text) = chunker.chunk_size
    /\ Len(chunker.chunks[3].text) < chunker.chunk_size
    /\ \E j \in 1..Len(chunker.raw) : IsSpace(chunker.raw[j])

\* The request of caller p comes from a user whose groups include Admins.
AdminRequest(p) ==
    /\ req[p].event.authorizer \in {"jwt", "claims"}
    /\ req[p].event.path = "/chat"
    /\ \/ /\ req[p].event.groups.kind = "list"
          /\ \E j \in 1..Len(req[p].event.groups.list) : req[p].event.groups.list[j] = "Admins"
       \/ /\ req[p].event.groups.kind = "str"
          /\ req[p].event.groups.str = "Admins"

\* C26: a chat request of a user whose groups include Admins never reads or
\* increments the usage counter and is never answered with 429, whatever the
\* counter's value; every change of a counter is made by a request of a
\* caller who is not an admin.
C26_AdminBypassesQuota ==
    /\ [](req # [p \in Callers |-> [pc |-> "idle"]] =>
            \A p \in Callers :
               AdminRequest(p) =>
                  /\ qpc[p] = "idle"
                  /\ qret[p] = "none"
                  /\ ~req[p].quota_checked
                  /\ req[p].statusCode # 429
                  /\ req[p].pc # "check_quota")
    /\ [][(req # [p \in Callers |-> [pc |-> "idle"]] /\ usage' # usage) =>
             \E p \in Callers :
                /\ ~AdminRequest(p)
                /\ qpc[p] = "update_item"
                /\ qpc'[p] = "idle"]_vars

C26_Witness ==
    /\ req # [p \in Callers |-> [pc |-> "idle"]]
    /\ \E p \in Callers :
          /\ AdminRequest(p)
          /\ req[p].pc = "done"
          /\ req[p].statusCode = 200
    /\ CountOf(QUser, QToday) = DAILY_MSG_LIMIT
    /\ qstat.count0 = DAILY_MSG_LIMIT
    /\ usage_table

\* C27: when every external call returns (a value or an error), the run for
\* an upload record with a well-formed key ends with exactly one result entry
\* and a status of indexed or error; once the invocation has ended no
\* well-formed record of its batch is left at processing.
C27_RunEndsTerminal ==
    \A i \in Invs :
        inv[i].pc \in {"returned", "raised"} =>
            \A j \in 1..Len(inv[i].batch) :
                LET key == inv[i].batch[j]
                IN  WellFormed(key) =>
                       /\ Cardinality({r \in 1..Len(inv[i].results) :
                                          inv[i].results[r].key = key}) = 1
                       /\ status_table =>
                             \E it \in status :
                                /\ StatusKey(it) = <<UserOf(key), key>>
                                /\ it.status \in {"indexed", "error"}

\* C31: the waits of the asynchronous OCR polling loop, summed over all
\* polling attempts up to the timeout, come to at most 120 seconds.
C31_TotalWaitBounded ==
    ocr.pc # "idle" => ocr.elapsed <= 120

\* The summed length of the texts of the first n parts of the CONTEXT block.
RECURSIVE PartChars(_, _)
PartChars(parts, n) == IF n = 0 THEN 0 ELSE PartChars(parts, n - 1) + LenRuns(parts[n].text)

\* C32: the CONTEXT block of build_rag_prompt holds a prefix of the ranked
\* list and nothing else: the fragments in the given order, each with its own
\* filename and chunk index and its trimmed text, up to but not including the
\* first fragment whose trimmed text would take the summed length over
\* RAG_MAX_CHARS; the summed length never exceeds RAG_MAX_CHARS.
C32_ContextIsBudgetedPrefix ==
    (rag.pc \in {"invoke", "replied"} /\ rag.result # <<>>) =>
        LET parts == rag.prompt.context
            k == Len(parts)
        IN  /\ rag.prompt.framed
            /\ k <= Len(rag.result)
            /\ \A j \in 1..k :
                  /\ parts[j].filename = rag.result[j].filename
                  /\ parts[j].chunk_index = rag.result[j].chunk_index
                  /\ parts[j].text = StripRuns(rag.result[j].chunk_text)
            /\ PartChars(parts, k) <= RAG_MAX_CHARS
            /\ k < Len(rag.result) =>
                  PartChars(parts, k) + LenRuns(StripRuns(rag.result[k + 1].chunk_text))
                     > RAG_MAX_CHARS

\* Two fragments fill the budget exactly and a third, small one is left out.
C32_Witness ==
    /\ rag.pc = "replied"
    /\ Len(rag.result) = 3
    /\ Len(rag.sent.context) = 2
    /\ PartChars(rag.sent.context, 2) = RAG_MAX_CHARS
    /\ rag.result[2].chunk_text # StripRuns(rag.result[2].chunk_text)

\* C33: when every upload goes through the upload-request endpoint, the
\* number of objects stored under one user's prefix never exceeds
\* MAX_FILES_PER_USER, in any interleaving of the user's upload requests and
\* the uploads that follow them.
C33_FileCountCapped ==
    req # [p \in Callers |-> [pc |-> "idle"]] =>
        KeyCount(UserOf(KeyA)) <= MAX_FILES_PER_USER

\* C34: once a delete request for a document has answered 200, with an
\* ingestion run of the same document in progress when the delete began and
\* no upload afterwards, no chunk of the document is stored and no status
\* record of it exists, in this and in every later state.
C34_DeletedStaysDeleted ==
    (del.pc = "done" /\ del.statusCode = 200 /\ del.running) =>
        /\ \A x \in chunks : x.doc_key # del.key
        /\ \A x \in status : StatusKey(x) # <<del.user_id, del.key>>

\* The messages of the failures that precede delete_existing_chunks: the
\* extension guard, the size guard, the empty-text guard, extract_text raising.
PreDeleteErrors ==
    {"Unsupported file type", "File exceeds limit", "No extractable text", "extract_text"}

\* The single record of invocation 1 ended in error before the delete step.
EndedBeforeDelete ==
    /\ inv[1].pc = "returned"
    /\ Len(inv[1].results) = 1
    /\ inv[1].results[1].status = "error"
    /\ inv[1].results[1].error \in PreDeleteErrors

\* The chunk stores a run can start from.
InitialStores ==
    { Generation(KeyA, OldText(a)) \cup Generation(KeyB, OldText(b)) :
        a \in 0..MaxOld, b \in 0..MaxOld }

\* C35: a run that ends in error before the delete step (extension guard, size
\* guard, extraction failure, empty text) leaves the chunk store as it found
\* it, every chunk of the earlier generation included, and the document's
\* status record (when the status table is configured) says error with
\* chunk_count 0.
C35_EarlyErrorKeepsChunks ==
    \A c0 \in InitialStores :
        (chunks = c0) =>
            [](EndedBeforeDelete =>
                 /\ chunks = c0
                 /\ status_table =>
                       /\ \E it \in status : it.doc_key = inv[1].results[1].key
                       /\ \A it \in status :
                             it.doc_key = inv[1].results[1].key =>
                                 (it.status = "error" /\ it.chunk_count = 0))

\* A re-upload of u/a.md with no extractable text ended in error while the
\* earlier generation's chunks are stored and the status record says error.
C35_Witness ==
    /\ EndedBeforeDelete
    /\ inv[1].results[1].key = KeyA
    /\ inv[1].results[1].error \in {"No extractable text", "extract_text"}
    /\ \E x \in chunks : x.doc_key = KeyA
    /\ \E it \in status : it.doc_key = KeyA /\ it.status = "error" /\ it.chunk_count = 0

\* The request of caller p is a chat request of an authenticated user whose
\* groups do not include Admins.
MeteredRequest(p) ==
    /\ req[p].event.authorizer \in {"jwt", "claims"}
    /\ req[p].event.path = "/chat"
    /\ ~AdminRequest(p)

\* The callers whose quota check returned True.
Passed == {p \in Callers : qret[p] = "true"}

\* C36: with a usage table, the counter has grown by exactly one for every
\* authenticated non-admin chat request whose quota check passed, and by
\* nothing else; such a request has passed the check, and so has been counted,
\* by the time its body is looked at, and keeps its increment when it is
\* answered with 400, 500 or 200; requests without claims and requests on the
\* documents route never enter the quota enforcer.
C36_CountedOncePerPassedRequest ==
    /\ usage_table => CountOf(QUser, QToday) - qstat.count0 = Cardinality(Passed)
    /\ \A p \in Callers :
          /\ qret[p] = "true" => MeteredRequest(p)
          /\ (MeteredRequest(p) /\ (\/ req[p].pc \in {"body", "reply"}
                                    \/ req[p].statusCode \in {200, 400}
                                    \/ req[p].statusCode = 500 /\ qret[p] # "raised"))
                => qret[p] = "true"
          /\ ~MeteredRequest(p) =>
                /\ qpc[p] = "idle"
                /\ qret[p] = "none"
                /\ ~req[p].quota_checked
                /\ req[p].pc # "check_quota"

\* A metered request passed the quota check, was counted and was then
\* answered with 400; the counter keeps the increment.
C36_Witness ==
    /\ usage_table
    /\ \E p \in Callers :
          /\ MeteredRequest(p)
          /\ req[p].pc = "done"
          /\ req[p].statusCode = 400
          /\ qret[p] = "true"
    /\ \A p \in Callers : req[p].pc = "done"
    /\ CountOf(QUser, QToday) = qstat.count0 + Cardinality(Passed)
    /\ CountOf(QUser, QToday) > qstat.count0

====
